---- MODULE Spec2Model ----
(***************************************************************************)
(* Model of the batched, conversation-stateful report generator            *)
(* (src/src/generators/report_generator.py), of the message builder of the *)
(* model transport (src/src/llm/openrouter_client.py) and of the report    *)
(* post-processing of the case orchestrator (src/src/core/orchestrator.py).*)
(*                                                                         *)
(* Text is a sequence of tokens.  The token MARKER stands for the literal  *)
(* "SUMMARY OF FINDINGS:", WS for one whitespace character, STAR for one   *)
(* '*' character; every other token is an opaque word.                     *)
(*                                                                         *)
(* The template catalog and the rule-based selector                        *)
(* (src/src/templates/template_manager.py) work on character strings:      *)
(* study labels and template names are strings, searched and compared      *)
(* character by character.                                                 *)
(***************************************************************************)
EXTENDS Integers, Sequences, FiniteSets, TLC

\* ---------------------------------------------------------------- bounds
MaxImages == 3
MaxBatchSize == 2
MaxRuns == 2
MaxLabels == 2
MaxTemplates == 2
MaxMarkers == 2

\* ---------------------------------------------------------------- tokens
MARKER == "SUMMARY OF FINDINGS:"
WS == " "
STAR == "*"

VARIABLES
    batch_size,            \* ReportGenerator.batch_size
    conversation_history,  \* ReportGenerator.conversation_history
    llm_call_count,        \* ReportGenerator.llm_call_count
    pc,                    \* position: idle / batch / final / post
    runNo,                 \* number of generate_report calls made so far
    caller,                \* generate_report called "direct" or by "process_case"
    image_paths,           \* argument image_paths of the current call
    template_breast,       \* "BREAST" in template_name.upper()
    batches,               \* local batches of generate_report
    batch_num,             \* loop variable of generate_report (1-based)
    current_summary,       \* local current_summary of generate_report
    outcome,               \* end of the current call: none / returned / raised
    raisedAt,              \* step that raised: none / init / batch / final
    ret,                   \* value returned by generate_report
    case_outcome,          \* how process_case ended: none / saved / raised
    saved_report,          \* text written by save_report, <<"-">> when none was
    log,                   \* history: invocations made by the current call
    lastSent,              \* history: messages passed to the latest invocation
    prev_invoked           \* history: an earlier call has invoked the model

VARIABLES
    templates,             \* TemplateManager.templates
    templates_by_id,       \* TemplateManager.templates_by_id (ordered dict)
    templates_by_name,     \* TemplateManager.templates_by_name (ordered dict)
    op,                    \* the latest catalog or selector call
    key,                   \* argument of the latest lookup by id or by name
    directory_names,       \* argument of the latest select_template
    info,                  \* result of _parse_directory_names in that call
    template_name,         \* local template_name of that call
    result,                \* what the latest call returned or raised
    held_list,             \* the list get_all_templates gave to its caller
    held_alias             \* that list is the catalog's own list object

catVars == <<templates, templates_by_id, templates_by_name, op, key,
             directory_names, info, template_name, result, held_list,
             held_alias>>

VARIABLES
    saved_templates,       \* argument templates of save_to_json
    json_file,             \* content of the file at output_path
    stage                  \* round trip: none / start / saved / loaded

rtVars == <<saved_templates, json_file, stage>>

VARIABLES
    body_elements,         \* the paragraphs and tables of the source document
    ext_templates,         \* TemplateExtractor.templates
    returned,              \* what the latest extract_from_docx returned
    prev_returned          \* history: what the run before it had returned

extVars == <<body_elements, ext_templates, returned, prev_returned>>

tplVars == <<catVars, rtVars, extVars>>

genVars == <<batch_size, conversation_history, llm_call_count, pc, runNo, caller,
          image_paths, template_breast, batches, batch_num,
          current_summary, outcome, raisedAt, ret, case_outcome, saved_report,
          log, lastSent, prev_invoked>>

vars == <<genVars, tplVars>>

\* ------------------------------------------------------ sequence helpers
Min(a, b) == IF a < b THEN a ELSE b

Contains(s, tok) == \E i \in 1..Len(s) : s[i] = tok

FirstIndex(s, tok) == CHOOSE i \in 1..Len(s) :
                          s[i] = tok /\ \A j \in 1..(i - 1) : s[j] # tok

IsPrefix(s, t) == Len(s) <= Len(t) /\ SubSeq(t, 1, Len(s)) = s

IsStrictPrefix(s, t) == Len(s) < Len(t) /\ SubSeq(t, 1, Len(s)) = s

\* str.strip(): drop leading and trailing whitespace
RECURSIVE LStrip(_)
LStrip(s) == IF s # <<>> /\ s[1] = WS THEN LStrip(Tail(s)) ELSE s

RECURSIVE RStrip(_)
RStrip(s) == IF s # <<>> /\ s[Len(s)] = WS
             THEN RStrip(SubSeq(s, 1, Len(s) - 1)) ELSE s

Strip(s) == RStrip(LStrip(s))

\* str.replace('**', ''): non-overlapping occurrences, left to right
RECURSIVE StripBold(_)
StripBold(s) ==
    IF Len(s) < 2 THEN s
    ELSE IF s[1] = STAR /\ s[2] = STAR THEN StripBold(SubSeq(s, 3, Len(s)))
    ELSE <<s[1]>> \o StripBold(Tail(s))

\* --------------------------------------------------- report_generator.py
\* _create_initial_summary
InitialSummary == <<MARKER, WS, "No images analyzed yet.">>

\* Batches with the trailing partial batch dropped
BatchesDropPartial(paths, B) ==
    [j \in 1..(Len(paths) \div B) |->
        SubSeq(paths, (j - 1) * B + 1, (j - 1) * B + B)]

\* batches = [image_paths[i:i + B] for i in range(0, len(image_paths), B)]
Batches(paths, B) ==
    LET starts == {i \in 0..(Len(paths) - 1) : i % B = 0}
    IN  [j \in 1..Cardinality(starts) |->
            SubSeq(paths, (j - 1) * B + 1, Min((j - 1) * B + B, Len(paths)))]

\* the summary taken from what follows the last marker of the reply
ExtractSummaryLastMarker(response) ==
    IF Contains(response, MARKER)
    THEN <<MARKER>> \o Strip(SubSeq(response,
                                    (CHOOSE i \in 1..Len(response) :
                                        /\ response[i] = MARKER
                                        /\ \A j \in (i + 1)..Len(response) :
                                              response[j] # MARKER) + 1,
                                    Len(response)))
    ELSE Strip(response)

\* the summary extracted from a batch reply
ExtractSummary(response) ==
    IF Contains(response, MARKER)
    THEN <<MARKER>> \o Strip(SubSeq(response, FirstIndex(response, MARKER) + 1,
                                    Len(response)))
    ELSE Strip(response)

\* the except branch falling back to the initial summary
SummaryOnBatchErrorInitial(summary) == InitialSummary

\* the value returned by the except branch of process_images_batch
SummaryOnBatchError(summary) == summary

Message(role, kind, summary, k, total, images, text, r) ==
    [role |-> role, kind |-> kind, summary |-> summary, batch_number |-> k,
     total_batches |-> total, images |-> images, text |-> text, run |-> r]

SystemMessage(r) ==
    Message("system", "system_prompt", <<>>, 0, 0, <<>>, <<>>, r)

\* _update_summary_prompt wrapped by create_multimodal_message
BatchMessage(summary, k, total, images, r) ==
    Message("user", "batch", summary, k, total, images, <<>>, r)

\* the domain supplement appended on batch 1 of a breast case
BreastMessage(r) ==
    Message("user", "breast_prompt", <<>>, 0, 0, <<>>, <<>>, r)

AssistantMessage(response, r) ==
    Message("assistant", "reply", <<>>, 0, 0, <<>>, response, r)

\* _create_final_report_prompt: embeds the summary and, when they load, the
\* few-shot examples; the template structure and the optional prior report
\* block are further text of the same message and are left out
FinalMessage(summary, few_shot, r) ==
    Message("user", "final", summary, 0, 0, <<>>,
            IF few_shot THEN <<"FEW-SHOT EXAMPLES">> ELSE <<>>, r)

\* ResetHistory that initialises the history only when there is none
ResetHistoryOnce(r) ==
    IF conversation_history = <<>> THEN <<SystemMessage(r)>>
    ELSE conversation_history

\* conversation_history = [{"role": "system", ...}]
ResetHistory(r) == <<SystemMessage(r)>>

\* self.llm_call_count = 0
ResetCount == 0

\* self.llm_call_count += 1
CountInvocation(c) == c + 1

NoReturn == [type |-> "none", text |-> <<>>, count |-> 0]

NoReport == <<"-">>

\* return report_text, self.llm_call_count
ReturnValue(text, count) == [type |-> "tuple", text |-> text, count |-> count]

\* ------------------------------------------------------------- inputs
Callers == {"direct", "process_case"}

\* replies of the model to a batch turn
BatchReplies ==
    { <<"x", MARKER, WS, "b", WS>>,
      <<WS, "c", WS>>,
      <<MARKER, "a", MARKER, "b">> }

\* replies of the model to the final turn
FinalReplies ==
    { <<"r">>,
      <<STAR, STAR, "r", STAR, STAR>>,
      <<STAR, STAR, STAR, "r">> }

LogEntry(kind, k, ok, before, after, reply) ==
    [kind |-> kind, k |-> k, ok |-> ok, before |-> before, after |-> after,
     reply |-> reply]

\* ------------------------------------------------------- string helpers
Max(a, b) == IF a > b THEN a ELSE b

\* the i-th character of a string
CharAt(s, i) == SubSeq(s, i, i)

\* Python's "sub in s"
HasSub(s, sub) ==
    \E i \in 0..(Len(s) - Len(sub)) : SubSeq(s, i + 1, i + Len(sub)) = sub

LowerLetters == "abcdefghijklmnopqrstuvwxyz"

UpperLetters == "ABCDEFGHIJKLMNOPQRSTUVWXYZ"

\* the letter of alphabet `to` at the place each letter of `from` has
LetterMap(from, to) ==
    [c \in {CharAt(from, i) : i \in 1..Len(from)} |->
        CharAt(to, CHOOSE i \in 1..Len(from) : CharAt(from, i) = c)]

UpperOf == LetterMap(LowerLetters, UpperLetters)

LowerOf == LetterMap(UpperLetters, LowerLetters)

\* a character under a letter map; other characters stay as they are
MapChar(c, map) == IF c \in DOMAIN map THEN map[c] ELSE c

\* str.upper()
RECURSIVE ToUpper(_)
ToUpper(s) ==
    IF Len(s) = 0 THEN ""
    ELSE MapChar(CharAt(s, 1), UpperOf) \o ToUpper(SubSeq(s, 2, Len(s)))

\* str.lower()
RECURSIVE ToLower(_)
ToLower(s) ==
    IF Len(s) = 0 THEN ""
    ELSE MapChar(CharAt(s, 1), LowerOf) \o ToLower(SubSeq(s, 2, Len(s)))

\* number of leading characters a and b share, counted from k
RECURSIVE CommonPrefix(_, _, _)
CommonPrefix(a, b, k) ==
    IF k < Len(a) /\ k < Len(b) /\ CharAt(a, k + 1) = CharAt(b, k + 1)
    THEN CommonPrefix(a, b, k + 1)
    ELSE k

\* number of trailing characters a and b share, counted from k
RECURSIVE CommonSuffix(_, _, _)
CommonSuffix(a, b, k) ==
    IF k < Len(a) /\ k < Len(b) /\ CharAt(a, Len(a) - k) = CharAt(b, Len(b) - k)
    THEN CommonSuffix(a, b, k + 1)
    ELSE k

\* one row of the longest-common-subsequence table of a and b: prev is the
\* row of the previous character of a, cur the part of the row of
\* character c built so far (both start with the 0 of the empty prefix)
RECURSIVE LcsRow(_, _, _, _)
LcsRow(prev, c, b, cur) ==
    IF Len(cur) > Len(b) THEN cur
    ELSE LET j == Len(cur)
         IN  LcsRow(prev, c, b,
                    Append(cur, IF c = CharAt(b, j) THEN prev[j] + 1
                                ELSE Max(prev[j + 1], cur[j])))

\* the rows from character i of a on; a row that has matched all of b
\* cannot grow
RECURSIVE LcsFrom(_, _, _, _)
LcsFrom(a, b, i, prev) ==
    IF i > Len(a) \/ prev[Len(b) + 1] = Len(b) THEN prev[Len(b) + 1]
    ELSE LcsFrom(a, b, i + 1, LcsRow(prev, CharAt(a, i), b, <<0>>))

\* the table of the longest common subsequence, filled row by row
LcsTable(a, b) == LcsFrom(a, b, 1, [j \in 1..(Len(b) + 1) |-> 0])

\* length of a longest common subsequence of a and b: the characters they
\* share at both ends belong to it, the table is filled for what is between
Lcs(a, b) ==
    LET p == CommonPrefix(a, b, 0)
        a1 == SubSeq(a, p + 1, Len(a))
        b1 == SubSeq(b, p + 1, Len(b))
        q == CommonSuffix(a1, b1, 0)
    IN  p + q + LcsTable(SubSeq(a1, 1, Len(a1) - q),
                         SubSeq(b1, 1, Len(b1) - q))

\* round(): nearest integer to num / den, halves to the even neighbour
RoundHalfEven(num, den) ==
    LET q == num \div den
        r == num % den
    IN  IF 2 * r < den THEN q
        ELSE IF 2 * r > den THEN q + 1
        ELSE IF q % 2 = 0 THEN q ELSE q + 1

\* fuzz.ratio(a, b): the indel similarity 2 * LCS / (len(a) + len(b)) as a
\* rounded percentage; 0 when either string is empty
Ratio(a, b) ==
    IF Len(a) = 0 \/ Len(b) = 0 THEN 0
    ELSE RoundHalfEven(200 * Lcs(a, b), Len(a) + Len(b))

\* --------------------------------------------------- template_manager.py
\* a Template of template_model.py
Template(id, name, sections, metadata) ==
    [id |-> id, name |-> name, sections |-> sections, metadata |-> metadata]

\* an insertion-ordered dict is a sequence of entries with distinct keys
DictHas(d, k) == \E i \in 1..Len(d) : d[i].key = k

DictGet(d, k) == d[CHOOSE i \in 1..Len(d) : d[i].key = k].value

\* d[k] = v: a present key keeps its place, a new key goes to the end
DictSet(d, k, v) ==
    IF DictHas(d, k)
    THEN [i \in 1..Len(d) |->
             IF d[i].key = k THEN [key |-> k, value |-> v] ELSE d[i]]
    ELSE Append(d, [key |-> k, value |-> v])

\* list(d.keys())
DictKeys(d) == [i \in 1..Len(d) |-> d[i].key]

\* _load_templates, lines 34-43, from record n of the decoded file on
RECURSIVE LoadFrom(_, _, _)
LoadFrom(data, n, acc) ==
    IF n > Len(data) THEN acc
    ELSE LET template == Template(data[n].id, data[n].name,
                                  data[n].sections, data[n].metadata)
         IN  LoadFrom(data, n + 1,
                 [templates |-> Append(acc.templates, template),
                  by_id |-> DictSet(acc.by_id, template.id, template),
                  by_name |-> DictSet(acc.by_name, template.name, template)])

\* TemplateManager.__init__ and _load_templates on decoded file content
LoadTemplates(data) ==
    LoadFrom(data, 1, [templates |-> <<>>, by_id |-> <<>>, by_name |-> <<>>])

\* what a call returns (a Template, None, a list) or raises (KeyError)
NoTemplate == Template("", "", <<>>, <<>>)

Returned(t) ==
    [kind |-> "template", template |-> t, list |-> <<>>, names |-> <<>>]

ReturnedNone ==
    [kind |-> "None", template |-> NoTemplate, list |-> <<>>, names |-> <<>>]

ReturnedList(l) ==
    [kind |-> "list", template |-> NoTemplate, list |-> l, names |-> <<>>]

ReturnedNames(l) ==
    [kind |-> "names", template |-> NoTemplate, list |-> <<>>, names |-> l]

RaisedKeyError ==
    [kind |-> "KeyError", template |-> NoTemplate, list |-> <<>>,
     names |-> <<>>]

NoResult ==
    [kind |-> "none", template |-> NoTemplate, list |-> <<>>, names |-> <<>>]

\* get_template_by_id / get_template_by_name on their index, lines 62-77
GetTemplate(index, k) ==
    IF DictHas(index, k) THEN Returned(DictGet(index, k)) ELSE RaisedKeyError

\* the info dict of _parse_directory_names, lines 136-146
NoInfo ==
    [has_us_breast |-> FALSE, has_us_breast_bilateral |-> FALSE,
     has_us_breast_right |-> FALSE, has_us_breast_left |-> FALSE,
     has_mg_2d |-> FALSE, has_mg_3d |-> FALSE, has_mg_bilateral |-> FALSE,
     has_mg_right |-> FALSE, has_mg_left |-> FALSE]

\* the ultrasound-breast branch of the loop body, lines 152-163
ParseUsBreast(i, u) ==
    IF HasSub(u, "BREAST") \/ HasSub(u, "USBREAST")
    THEN LET j == [i EXCEPT !.has_us_breast = TRUE]
         IN  IF HasSub(u, "BILATERAL") \/ HasSub(u, "(BILATERAL)")
             THEN [j EXCEPT !.has_us_breast_bilateral = TRUE]
             ELSE IF HasSub(u, "RIGHT") \/ HasSub(u, "(RIGHT)")
             THEN [j EXCEPT !.has_us_breast_right = TRUE]
             ELSE IF HasSub(u, "LEFT") \/ HasSub(u, "(LEFT)")
             THEN [j EXCEPT !.has_us_breast_left = TRUE]
             ELSE IF HasSub(u, "US_BREAST") \/ HasSub(u, "USBREAST")
             THEN [j EXCEPT !.has_us_breast_bilateral = TRUE]
             ELSE j
    ELSE i

\* the 3D markers tested before the 2D markers
ParseMgDimension3DFirst(i, u) ==
    IF HasSub(u, "MG3D") \/ HasSub(u, "TOMO") \/ HasSub(u, "MG3DBI")
    THEN [i EXCEPT !.has_mg_3d = TRUE]
    ELSE IF HasSub(u, "MG2D") \/ HasSub(u, "_2D_") \/ HasSub(u, "2D_MMG")
               \/ HasSub(u, "BI02")
    THEN [i EXCEPT !.has_mg_2d = TRUE]
    ELSE i

\* the 2D / 3D choice of the mammogram branch, lines 168-172
ParseMgDimension(i, u) ==
    IF HasSub(u, "MG2D") \/ HasSub(u, "_2D_") \/ HasSub(u, "2D_MMG")
          \/ HasSub(u, "BI02")
    THEN [i EXCEPT !.has_mg_2d = TRUE]
    ELSE IF HasSub(u, "MG3D") \/ HasSub(u, "TOMO") \/ HasSub(u, "MG3DBI")
    THEN [i EXCEPT !.has_mg_3d = TRUE]
    ELSE i

\* the laterality choice of the mammogram branch, lines 175-180
ParseMgLaterality(i, u) ==
    IF HasSub(u, "BI") \/ HasSub(u, "BILATERAL") \/ HasSub(u, "BIL")
    THEN [i EXCEPT !.has_mg_bilateral = TRUE]
    ELSE IF HasSub(u, "RIGHT") THEN [i EXCEPT !.has_mg_right = TRUE]
    ELSE IF HasSub(u, "LEFT") THEN [i EXCEPT !.has_mg_left = TRUE]
    ELSE i

\* the mammogram branch of the loop body, lines 166-180
ParseMammogram(i, u) ==
    IF HasSub(u, "MG") \/ HasSub(u, "MMG") \/ HasSub(u, "MAMMOGRAM")
    THEN ParseMgLaterality(ParseMgDimension(i, u), u)
    ELSE i

\* one iteration of the loop of _parse_directory_names
ParseOne(i, dir_name) ==
    LET dir_upper == ToUpper(dir_name)
    IN  ParseMammogram(ParseUsBreast(i, dir_upper), dir_upper)

RECURSIVE ParseFrom(_, _, _)
ParseFrom(names, n, i) ==
    IF n > Len(names) THEN i
    ELSE ParseFrom(names, n + 1, ParseOne(i, names[n]))

\* _parse_directory_names
ParseDirectoryNames(names) == ParseFrom(names, 1, NoInfo)

Name3DBoth == "DIGITAL 3D MAMMOGRAM & ULTRASOUND OF BOTH BREASTS"

Name3DRight == "DIGITAL 3D MAMMOGRAM & ULTRASOUND OF _RIGHT BREAST"

Name2DBoth == "BILATERAL 2D MAMMOGRAM & ULTRASOUND OF BOTH BREASTS"

Name2DRight == "DIGITAL 2D MAMMOGRAM & ULTRASOUND OF RIGHT BREAST"

NameUsBoth == "ULTRASOUND OF BOTH BREASTS"

\* template_name = None
NoName == ""

\* a right flag taking the tier's name before a bilateral flag does
TierNameRightFirst(i, both, right) ==
    IF i.has_us_breast_right \/ i.has_mg_right THEN right
    ELSE IF i.has_us_breast_bilateral \/ i.has_mg_bilateral THEN both
    ELSE both

\* the name chosen within one combined tier, lines 205-210 and 213-218
TierName(i, both, right) ==
    IF i.has_us_breast_bilateral \/ i.has_mg_bilateral THEN both
    ELSE IF i.has_us_breast_right \/ i.has_mg_right THEN right
    ELSE both

\* the tiers tried with the 2D combination before the 3D one
CanonicalName2DFirst(i) ==
    IF i.has_us_breast /\ i.has_mg_2d THEN TierName(i, Name2DBoth, Name2DRight)
    ELSE IF i.has_us_breast /\ i.has_mg_3d
    THEN TierName(i, Name3DBoth, Name3DRight)
    ELSE IF i.has_us_breast THEN NameUsBoth
    ELSE NoName

\* the ultrasound-only tier naming the side the labels carry
CanonicalNameUsSide(i) ==
    IF i.has_us_breast /\ i.has_mg_3d THEN TierName(i, Name3DBoth, Name3DRight)
    ELSE IF i.has_us_breast /\ i.has_mg_2d
    THEN TierName(i, Name2DBoth, Name2DRight)
    ELSE IF i.has_us_breast
    THEN TierName(i, NameUsBoth, "ULTRASOUND OF RIGHT BREAST")
    ELSE NoName

\* select_template, lines 200-224: the canonical name for a feature set
CanonicalName(i) ==
    IF i.has_us_breast /\ i.has_mg_3d THEN TierName(i, Name3DBoth, Name3DRight)
    ELSE IF i.has_us_breast /\ i.has_mg_2d
    THEN TierName(i, Name2DBoth, Name2DRight)
    ELSE IF i.has_us_breast THEN NameUsBoth
    ELSE NoName

\* threshold = 0.8, as a percentage
Threshold == 80

\* one record of a templates file
FileEntry(n, name) ==
    [id |-> "template_00" \o n, name |-> name,
     sections |-> <<[key |-> "FINDINGS", value |-> "Normal."]>>,
     metadata |-> <<[key |-> "source", value |-> "templates.docx"]>>]

\* templates files: every canonical name; names that differ in case or by
\* a word; a tie of two names one character short; a name scoring exactly
\* the threshold next to one just below it; unrelated names; a name
\* present twice; no entries
CatalogFiles ==
    { <<FileEntry("1", Name3DBoth), FileEntry("2", Name3DRight),
        FileEntry("3", Name2DBoth), FileEntry("4", Name2DRight),
        FileEntry("5", NameUsBoth)>>,
      <<FileEntry("1", "Ultrasound of Both Breasts"),
        FileEntry("2", "DIGITAL 3D MAMMOGRAM & ULTRASOUND OF RIGHT BREAST"),
        FileEntry("3", "ultrasound of both breasts")>>,
      <<FileEntry("1", "ULTRASOUND OF BOTH BREAST"),
        FileEntry("2", "LTRASOUND OF BOTH BREASTS"),
        FileEntry("3", Name2DBoth)>>,
      <<FileEntry("1", "ULTRASOUND OF BOTH BXXXXX"),
        FileEntry("2", "ULTRASOUND OF BOTH BXXXX")>>,
      <<FileEntry("1", "CT"), FileEntry("2", "THYROID")>>,
      <<FileEntry("1", NameUsBoth), FileEntry("2", NameUsBoth)>>,
      <<>> }

\* the names select_template can choose and the names of the catalogs
CanonicalNames == {Name3DBoth, Name3DRight, Name2DBoth, Name2DRight, NameUsBoth}

CatalogNames == UNION {{d[n].name : n \in 1..Len(d)} : d \in CatalogFiles}

\* fuzz.ratio(target_name.lower(), template_name.lower()) of line 253 for
\* these names, computed once
KnownScores ==
    {<<target_name, name, Ratio(ToLower(target_name), ToLower(name))>> :
        target_name \in CanonicalNames, name \in CatalogNames}

\* score = fuzz.ratio(target_name.lower(), template_name.lower()) / 100.0,
\* kept as a percentage
Score(target_name, name) ==
    IF target_name \in CanonicalNames /\ name \in CatalogNames
    THEN (CHOOSE known \in KnownScores :
             known[1] = target_name /\ known[2] = name)[3]
    ELSE Ratio(ToLower(target_name), ToLower(name))

\* a later name of equal score replacing the earlier one
ImprovesOrTies(score, best_score) == score >= best_score /\ score >= Threshold

\* if score > best_score and score >= threshold
Improves(score, best_score) == score > best_score /\ score >= Threshold

\* the loop of _fuzzy_fallback, lines 252-257, from name n on
RECURSIVE FuzzyFrom(_, _, _, _, _, _)
FuzzyFrom(by_name, target_name, names, n, best_match, best_score) ==
    IF n > Len(names) THEN best_match
    ELSE LET score == Score(target_name, names[n])
         IN  IF Improves(score, best_score)
             THEN FuzzyFrom(by_name, target_name, names, n + 1,
                            Returned(DictGet(by_name, names[n])), score)
             ELSE FuzzyFrom(by_name, target_name, names, n + 1,
                            best_match, best_score)

\* _fuzzy_fallback
FuzzyFallback(by_name, target_name) ==
    FuzzyFrom(by_name, target_name, DictKeys(by_name), 1, ReturnedNone, 0)

\* select_template, lines 226-234, with the KeyError left to the caller
ResolveUncaught(by_name, name) ==
    IF name # NoName THEN GetTemplate(by_name, name) ELSE ReturnedNone

\* select_template, lines 226-234: resolve the chosen name
Resolve(by_name, name) ==
    IF name # NoName
    THEN IF GetTemplate(by_name, name).kind = "KeyError"
         THEN FuzzyFallback(by_name, name)
         ELSE GetTemplate(by_name, name)
    ELSE ReturnedNone

\* no catalog call has been made and no catalog is loaded
CatIdle ==
    /\ templates = <<>>
    /\ templates_by_id = <<>>
    /\ templates_by_name = <<>>
    /\ op = "none"
    /\ key = ""
    /\ directory_names = <<>>
    /\ info = NoInfo
    /\ template_name = NoName
    /\ result = NoResult
    /\ held_list = <<>>
    /\ held_alias = FALSE

\* ------------------------------------------------ Python and JSON values
\* Python values a metadata dict can hold: str, None, list and tuple (of
\* strings)
PyStr(text) == [kind |-> "str", text |-> text, items |-> <<>>]

PyNone == [kind |-> "None", text |-> "", items |-> <<>>]

PyList(items) == [kind |-> "list", text |-> "", items |-> items]

PyTuple(items) == [kind |-> "tuple", text |-> "", items |-> items]

\* JSON values: string, null and array (of strings)
JsonString(text) == [type |-> "string", text |-> text, items |-> <<>>]

JsonNull == [type |-> "null", text |-> "", items |-> <<>>]

JsonArray(items) == [type |-> "array", text |-> "", items |-> items]

\* an encoder writing str(value) for None
JsonOfNoneAsText(v) ==
    CASE v.kind = "str" -> JsonString(v.text)
      [] v.kind = "None" -> JsonString("None")
      [] v.kind \in {"list", "tuple"} -> JsonArray(v.items)

\* json.dump of one value: the encoder writes lists and tuples as arrays
JsonOf(v) ==
    CASE v.kind = "str" -> JsonString(v.text)
      [] v.kind = "None" -> JsonNull
      [] v.kind \in {"list", "tuple"} -> JsonArray(v.items)

\* json.load of one value: the decoder reads every array as a list
PyOf(j) ==
    CASE j.type = "string" -> PyStr(j.text)
      [] j.type = "null" -> PyNone
      [] j.type = "array" -> PyList(j.items)

\* json.dump of a str-to-str dict: an object with string members
JsonOfSections(sections) ==
    [n \in 1..Len(sections) |->
        [key |-> sections[n].key, value |-> JsonString(sections[n].value)]]

\* json.dump of a str-to-value dict
JsonOfMetadata(metadata) ==
    [n \in 1..Len(metadata) |->
        [key |-> metadata[n].key, value |-> JsonOf(metadata[n].value)]]

\* save_to_json, lines 215-230: the JSON document written for a list
Dump(list) ==
    [n \in 1..Len(list) |->
        [id |-> JsonString(list[n].id),
         name |-> JsonString(list[n].name),
         sections |-> JsonOfSections(list[n].sections),
         metadata |-> JsonOfMetadata(list[n].metadata)]]

\* json.load of an object whose members were written from strings
PyOfSections(members) ==
    [n \in 1..Len(members) |->
        [key |-> members[n].key, value |-> PyOf(members[n].value).text]]

\* json.load of an object with members of any kind
PyOfMetadata(members) ==
    [n \in 1..Len(members) |->
        [key |-> members[n].key, value |-> PyOf(members[n].value)]]

\* json.load, line 32: the list of dicts read from a JSON document
Decode(document) ==
    [n \in 1..Len(document) |->
        [id |-> PyOf(document[n].id).text,
         name |-> PyOf(document[n].name).text,
         sections |-> PyOfSections(document[n].sections),
         metadata |-> PyOfMetadata(document[n].metadata)]]

\* no file at output_path
NoFile == [exists |-> FALSE, document |-> <<>>]

\* the file holding a JSON document
File(document) == [exists |-> TRUE, document |-> document]

\* nothing has been saved
RtIdle ==
    /\ saved_templates = <<>>
    /\ json_file = NoFile
    /\ stage = "none"

\* --------------------------------------------------- template_extractor.py
\* a paragraph and a table of the document body
Paragraph(text) == [kind |-> "p", text |-> text, rows |-> <<>>]

Table(rows) == [kind |-> "tbl", text |-> "", rows |-> rows]

\* the characters str.strip() removes
Whitespace == {" ", "\t", "\n", "\r"}

\* str.strip() on a character string
RECURSIVE StripText(_)
StripText(text) ==
    IF Len(text) = 0 THEN text
    ELSE IF CharAt(text, 1) \in Whitespace
    THEN StripText(SubSeq(text, 2, Len(text)))
    ELSE IF CharAt(text, Len(text)) \in Whitespace
    THEN StripText(SubSeq(text, 1, Len(text) - 1))
    ELSE text

\* text.rstrip(':')
RECURSIVE RStripColon(_)
RStripColon(text) ==
    IF Len(text) > 0 /\ CharAt(text, Len(text)) = ":"
    THEN RStripColon(SubSeq(text, 1, Len(text) - 1))
    ELSE text

\* text.endswith(':')
EndsWithColon(text) == Len(text) > 0 /\ CharAt(text, Len(text)) = ":"

\* text.isupper(): a cased character, and no lower-case one
IsUpper(text) ==
    /\ \E i \in 1..Len(text) : CharAt(text, i) \in DOMAIN LowerOf
    /\ \A i \in 1..Len(text) : CharAt(text, i) \notin DOMAIN UpperOf

\* sep.join(parts)
RECURSIVE Join(_, _)
Join(parts, sep) ==
    IF Len(parts) = 0 THEN ""
    ELSE IF Len(parts) = 1 THEN parts[1]
    ELSE parts[1] \o sep \o Join(Tail(parts), sep)

\* "TEMPLATE ONLY" in element.text.upper(), of a paragraph
IsMarker(element) ==
    element.kind = "p" /\ HasSub(ToUpper(element.text), "TEMPLATE ONLY")

\* the places where re.search(r'\(([^)]+)\)', text) can match: a "(" whose
\* next ")" comes after one character or more
VariationStarts(text) ==
    {p \in 1..Len(text) :
        /\ CharAt(text, p) = "("
        /\ \E q \in (p + 2)..Len(text) :
              /\ CharAt(text, q) = ")"
              /\ \A k \in (p + 1)..(q - 1) : CharAt(text, k) # ")"}

\* _extract_variation: the first parenthesised group, stripped, or ""
ExtractVariation(text) ==
    IF VariationStarts(text) = {} THEN ""
    ELSE LET p == CHOOSE x \in VariationStarts(text) :
                     \A y \in VariationStarts(text) : x <= y
             q == CHOOSE x \in (p + 2)..Len(text) :
                     /\ CharAt(text, x) = ")"
                     /\ \A k \in (p + 1)..(x - 1) : CharAt(text, k) # ")"
         IN  StripText(SubSeq(text, p + 1, q - 1))

\* the cells of one row, stripped, as a markdown row
MarkdownRow(cells) ==
    "| " \o Join([c \in 1..Len(cells) |-> StripText(cells[c])], " | ") \o " |"

\* _table_to_markdown
TableToMarkdown(rows) ==
    LET header == IF Len(rows) > 0
                  THEN <<MarkdownRow(rows[1]),
                         MarkdownRow([c \in 1..Len(rows[1]) |-> "---"])>>
                  ELSE <<>>
        data == [r \in 1..(Len(rows) - 1) |-> MarkdownRow(rows[r + 1])]
    IN  "\n" \o Join(header \o data, "\n") \o "\n"

\* known_sections, line 132
KnownSections ==
    {"CLINICAL INFORMATION", "FINDINGS", "COMMENTS", "IMPRESSION",
     "PROCEDURE", "SUMMARY", "L.M.P."}

\* len(text) > 10, line 147
MainHeadingOver == 10

\* the dict started for an example, lines 159-162 and 168-171
NewTemplateData(name) == [name |-> name, sections |-> <<>>]

\* the locals of _parse_template_section at its start, lines 104-108;
\* current_template = None is has_template = FALSE
ParseStart ==
    [templates_data |-> <<>>, has_template |-> FALSE,
     current_template |-> NewTemplateData(""), current_section |-> "",
     current_content |-> <<>>, main_heading |-> ""]

\* current_template['sections'][current_section] =
\* "\n".join(current_content).strip(), done when its condition holds: the
\* condition asks for content at lines 139, 151 and 188, not at line 117
SaveSection(st, content_needed) ==
    IF /\ st.has_template
       /\ st.current_section # ""
       /\ (content_needed => st.current_content # <<>>)
    THEN [st EXCEPT !.current_template.sections =
             DictSet(@, st.current_section,
                     StripText(Join(st.current_content, "\n")))]
    ELSE st

\* templates_data.append(current_template) if there is one
AppendCurrent(st) ==
    IF st.has_template
    THEN [st EXCEPT !.templates_data = Append(@, st.current_template)]
    ELSE st

\* a section header, lines 136-144
SectionHeader(st, text_without_colon) ==
    IF st.has_template
    THEN [SaveSection(st, TRUE) EXCEPT !.current_section = text_without_colon,
                                       !.current_content = <<>>]
    ELSE st

\* any line that could be a main heading closing the example in progress
\* and starting one under its own name
MainHeadingAnyStartsNew(st, text) ==
    IF st.main_heading # "" /\ st.has_template
    THEN [AppendCurrent(SaveSection(st, TRUE)) EXCEPT
             !.current_template = NewTemplateData(text),
             !.current_section = "",
             !.current_content = <<>>]
    ELSE IF st.main_heading = ""
    THEN [st EXCEPT !.main_heading = text,
                    !.has_template = TRUE,
                    !.current_template = NewTemplateData(text),
                    !.current_section = "",
                    !.current_content = <<>>]
    ELSE st

\* a line that could be a main heading, lines 147-173
MainHeading(st, text) ==
    IF st.main_heading # "" /\ text = st.main_heading /\ st.has_template
    THEN [AppendCurrent(SaveSection(st, TRUE)) EXCEPT
             !.current_template = NewTemplateData(text),
             !.current_section = "",
             !.current_content = <<>>]
    ELSE IF st.main_heading = ""
    THEN [st EXCEPT !.main_heading = text,
                    !.has_template = TRUE,
                    !.current_template = NewTemplateData(text),
                    !.current_section = "",
                    !.current_content = <<>>]
    ELSE st

\* one paragraph that is not a marker, lines 124-176
ParseParagraph(st, element) ==
    LET text == StripText(element.text)
        text_without_colon == RStripColon(text)
    IN  IF text = "" THEN st
        ELSE IF \/ text_without_colon \in KnownSections
                \/ (IsUpper(text) /\ EndsWithColon(text))
        THEN SectionHeader(st, text_without_colon)
        ELSE IF /\ IsUpper(text)
                /\ Len(text) > MainHeadingOver
                /\ text_without_colon \notin KnownSections
        THEN MainHeading(st, text)
        ELSE IF st.current_section # ""
        THEN [st EXCEPT !.current_content = Append(@, text)]
        ELSE st

\* one table, lines 179-183
ParseTable(st, element) ==
    IF st.has_template /\ st.current_section # ""
    THEN [st EXCEPT !.current_content =
                       Append(@, TableToMarkdown(element.rows))]
    ELSE st

\* lines 117-120, reached at the next marker
AtNextMarker(st) == AppendCurrent(SaveSection(st, FALSE))

\* lines 188-191, which follow the loop however it ended
AfterLoop(st) == AppendCurrent(SaveSection(st, TRUE))

\* the loop of _parse_template_section from element i (counted from 1)
RECURSIVE ParseLoop(_, _, _)
ParseLoop(elements, i, st) ==
    IF i > Len(elements)
    THEN [templates_data |-> AfterLoop(st).templates_data, next_idx |-> i]
    ELSE IF IsMarker(elements[i])
    THEN [templates_data |-> AfterLoop(AtNextMarker(st)).templates_data,
          next_idx |-> i]
    ELSE IF elements[i].kind = "p"
    THEN ParseLoop(elements, i + 1, ParseParagraph(st, elements[i]))
    ELSE ParseLoop(elements, i + 1, ParseTable(st, elements[i]))

\* _parse_template_section(body_elements, start_idx, variation)
ParseTemplateSection(elements, start_idx) ==
    ParseLoop(elements, start_idx, ParseStart)

Digits == "0123456789"

\* f"template_{template_id:03d}" for ids below 1000
TemplateId(template_id) ==
    "template_" \o CharAt(Digits, ((template_id \div 100) % 10) + 1)
                \o CharAt(Digits, ((template_id \div 10) % 10) + 1)
                \o CharAt(Digits, (template_id % 10) + 1)

\* the metadata dict of lines 55-59
ExtractedMetadata(variation) ==
    <<[key |-> "source", value |-> PyStr("US Report templates.docx")],
      [key |-> "variation", value |-> PyStr(variation)],
      [key |-> "extracted_at", value |-> PyStr("2025-10-28")]>>

\* template_key, lines 43-47: the sorted items of a dict are its item set
TemplateKey(template_data, variation) ==
    [name |-> template_data.name, variation |-> variation,
     items |-> {template_data.sections[n] :
                   n \in 1..Len(template_data.sections)}]

\* every key taken as new
SeenNever(template_key, seen_templates) == FALSE

\* template_key in seen_templates, line 50
Seen(template_key, seen_templates) == template_key \in seen_templates

\* the loop of lines 41-63 with template_id counting the skipped entries too
RECURSIVE AddTemplatesCountingSkipped(_, _, _, _)
AddTemplatesCountingSkipped(templates_data, n, variation, acc) ==
    IF n > Len(templates_data) THEN acc
    ELSE IF ~Seen(TemplateKey(templates_data[n], variation),
                  acc.seen_templates)
    THEN AddTemplatesCountingSkipped(templates_data, n + 1, variation,
            [templates |->
                Append(acc.templates,
                       Template(TemplateId(acc.template_id),
                                templates_data[n].name,
                                templates_data[n].sections,
                                ExtractedMetadata(variation))),
             template_id |-> acc.template_id + 1,
             seen_templates |-> acc.seen_templates
                \cup {TemplateKey(templates_data[n], variation)}])
    ELSE AddTemplatesCountingSkipped(templates_data, n + 1, variation,
            [acc EXCEPT !.template_id = @ + 1])

\* the loop of lines 41-63 from entry n of templates_data on; acc holds
\* self.templates, template_id and seen_templates
RECURSIVE AddTemplates(_, _, _, _)
AddTemplates(templates_data, n, variation, acc) ==
    IF n > Len(templates_data) THEN acc
    ELSE IF ~Seen(TemplateKey(templates_data[n], variation),
                  acc.seen_templates)
    THEN AddTemplates(templates_data, n + 1, variation,
            [templates |->
                Append(acc.templates,
                       Template(TemplateId(acc.template_id),
                                templates_data[n].name,
                                templates_data[n].sections,
                                ExtractedMetadata(variation))),
             template_id |-> acc.template_id + 1,
             seen_templates |-> acc.seen_templates
                \cup {TemplateKey(templates_data[n], variation)}])
    ELSE AddTemplates(templates_data, n + 1, variation, acc)

\* the loop of lines 27-66 from element i (counted from 1)
RECURSIVE ExtractLoop(_, _, _)
ExtractLoop(elements, i, acc) ==
    IF i > Len(elements) THEN acc.templates
    ELSE IF IsMarker(elements[i])
    THEN LET variation == ExtractVariation(elements[i].text)
             parsed == ParseTemplateSection(elements, i + 1)
         IN  ExtractLoop(elements, parsed.next_idx,
                AddTemplates(parsed.templates_data, 1, variation, acc))
    ELSE ExtractLoop(elements, i + 1, acc)

\* self.templates left as the run before had it
TemplatesKept(current) == current

\* self.templates = [], line 18
TemplatesReset(current) == <<>>

\* extract_from_docx with self.templates = start when the loop begins
ExtractOnto(elements, start) ==
    ExtractLoop(elements, 1,
                [templates |-> start, template_id |-> 1,
                 seen_templates |-> {}])

\* no run of extract_from_docx has returned
NoList == [has |-> FALSE, list |-> <<>>]

ReturnedTemplates(list) == [has |-> TRUE, list |-> list]

\* no document is being extracted
ExtIdle ==
    /\ body_elements = <<>>
    /\ ext_templates = <<>>
    /\ returned = NoList
    /\ prev_returned = NoList

\* "BREAST" in template_name.upper(), line 240
IsBreastCase(name) == HasSub(ToUpper(name), "BREAST")

\* template names generate_report is called with
TemplateNames == {"Ultrasound of Both Breasts", "ULTRASOUND OF THYROID"}

\* ---------------------------------------------------------------- Init
\* ReportGenerator.__init__
GeneratorInit ==
    /\ batch_size \in 1..MaxBatchSize
    /\ conversation_history = <<>>
    /\ llm_call_count = 0
    /\ pc = "idle"
    /\ runNo = 0
    /\ caller = "direct"
    /\ image_paths = <<>>
    /\ template_breast = FALSE
    /\ batches = <<>>
    /\ batch_num = 0
    /\ current_summary = <<>>
    /\ outcome = "none"
    /\ raisedAt = "none"
    /\ ret = NoReturn
    /\ case_outcome = "none"
    /\ saved_report = NoReport
    /\ log = <<>>
    /\ lastSent = <<>>
    /\ prev_invoked = FALSE

Init == GeneratorInit /\ CatIdle /\ RtIdle /\ ExtIdle

\* bookkeeping common to every new call of generate_report
NewCall ==
    /\ pc = "idle"
    /\ runNo < MaxRuns
    /\ runNo' = runNo + 1
    /\ prev_invoked' = (prev_invoked \/ log # <<>>)
    /\ log' = <<>>
    /\ lastSent' = <<>>
    /\ ret' = NoReturn
    /\ case_outcome' = "none"

\* GenerateReportEmpty with the resets moved before the emptiness check
GenerateReportEmptyAfterReset ==
    /\ NewCall
    /\ caller' = "direct"
    /\ image_paths' = <<>>
    /\ llm_call_count' = ResetCount
    /\ conversation_history' = <<SystemMessage(runNo')>>
    /\ outcome' = "raised"
    /\ raisedAt' = "init"
    /\ pc' = "idle"
    /\ UNCHANGED tplVars
    /\ UNCHANGED <<batch_size, template_breast, batches, batch_num,
                   current_summary, saved_report>>

\* generate_report, lines 296-297: an empty image list raises ValueError.
\* process_case never passes an empty list (orchestrator.py:210-211).
GenerateReportEmpty ==
    /\ NewCall
    /\ caller' = "direct"
    /\ image_paths' = <<>>
    /\ outcome' = "raised"
    /\ raisedAt' = "init"
    /\ pc' = "idle"
    /\ UNCHANGED tplVars
    /\ UNCHANGED <<batch_size, conversation_history, llm_call_count,
                   template_breast, batches, batch_num, current_summary,
                   saved_report>>

\* generate_report, lines 299-318: reset the counter and the history,
\* partition the images, initialise the summary
GenerateReportStart ==
    /\ NewCall
    /\ \E n \in 1..MaxImages : image_paths' = [i \in 1..n |-> i]
    /\ caller' \in Callers
    /\ \E name \in TemplateNames : template_breast' = IsBreastCase(name)
    /\ llm_call_count' = ResetCount
    /\ conversation_history' = ResetHistory(runNo')
    /\ batches' = Batches(image_paths', batch_size)
    /\ current_summary' = InitialSummary
    /\ batch_num' = 1
    /\ pc' = IF batches' = <<>> THEN "final" ELSE "batch"
    /\ outcome' = "none"
    /\ raisedAt' = "none"
    /\ UNCHANGED tplVars
    /\ UNCHANGED <<batch_size, saved_report>>

\* _load_breast_specific_prompt is called on batch 1 of a breast case only
\* and yields the supplement or nothing
LoadedChoices == IF batch_num = 1 /\ template_breast THEN BOOLEAN ELSE {FALSE}

\* the supplement appended after the batch message
BatchAppendSupplementLast(loaded) ==
    <<BatchMessage(current_summary, batch_num, Len(batches),
                   batches[batch_num], runNo)>>
    \o (IF batch_num = 1 /\ template_breast /\ loaded
        THEN <<BreastMessage(runNo)>> ELSE <<>>)

\* messages appended by process_images_batch before the invocation:
\* the supplement (batch 1 of a breast case, when it loads) and the batch
\* message
BatchAppend(loaded) ==
    (IF batch_num = 1 /\ template_breast /\ loaded
     THEN <<BreastMessage(runNo)>> ELSE <<>>)
    \o <<BatchMessage(current_summary, batch_num, Len(batches),
                      batches[batch_num], runNo)>>

\* process_case re-raises what generate_report raises (orchestrator.py:253)
RaisedThrough(who, before) == IF who = "process_case" THEN "raised" ELSE before

\* the loop left for the final step after its first batch
NextBatchOnlyFirst ==
    /\ batch_num' = batch_num + 1
    /\ pc' = "final"

\* the for loop of generate_report, lines 322-325
NextBatch ==
    /\ batch_num' = batch_num + 1
    /\ pc' = IF batch_num = Len(batches) THEN "final" ELSE "batch"

InBatch ==
    /\ pc = "batch"
    /\ batch_num <= Len(batches)
    /\ batches[batch_num] # <<>>

\* process_images_batch, line 237: encode_image_to_base64 raises for an
\* image that is missing or has an unsupported suffix; the call is outside
\* the try block, so the error leaves process_images_batch and
\* generate_report
ProcessBatchEncodeError ==
    /\ InBatch
    /\ outcome' = "raised"
    /\ raisedAt' = "batch"
    /\ pc' = "idle"
    /\ case_outcome' = RaisedThrough(caller, case_outcome)
    /\ UNCHANGED tplVars
    /\ UNCHANGED <<batch_size, conversation_history, llm_call_count, runNo,
                   caller, image_paths, template_breast, batches,
                   batch_num, current_summary, ret, saved_report, log,
                   lastSent, prev_invoked>>

\* process_images_batch, lines 236-271: the invocation succeeds
ProcessBatchOk ==
    /\ InBatch
    /\ \E loaded \in LoadedChoices, response \in BatchReplies :
         LET sent == conversation_history \o BatchAppend(loaded)
         IN  /\ conversation_history' =
                    Append(sent, AssistantMessage(response, runNo))
             /\ lastSent' = sent
             /\ current_summary' = ExtractSummary(response)
             /\ log' = Append(log, LogEntry("batch", batch_num, TRUE,
                                  current_summary, current_summary', response))
    /\ llm_call_count' = CountInvocation(llm_call_count)
    /\ NextBatch
    /\ UNCHANGED tplVars
    /\ UNCHANGED <<batch_size, runNo, caller, image_paths, template_breast,
                   batches, outcome, raisedAt, ret, case_outcome,
                   saved_report, prev_invoked>>

\* ProcessBatchFail counting the invocation only after it has succeeded
ProcessBatchFailUncounted ==
    /\ InBatch
    /\ \E loaded \in LoadedChoices :
         LET sent == conversation_history \o BatchAppend(loaded)
         IN  /\ conversation_history' = sent
             /\ lastSent' = sent
    /\ current_summary' = SummaryOnBatchError(current_summary)
    /\ log' = Append(log, LogEntry("batch", batch_num, FALSE,
                         current_summary, current_summary', <<>>))
    /\ NextBatch
    /\ UNCHANGED tplVars
    /\ UNCHANGED <<batch_size, llm_call_count, runNo, caller, image_paths,
                   template_breast, batches, outcome, raisedAt, ret,
                   case_outcome, saved_report, prev_invoked>>

\* ProcessBatchFail taking the failed batch message back out of the history
ProcessBatchFailRollback ==
    /\ InBatch
    /\ \E loaded \in LoadedChoices :
         lastSent' = conversation_history \o BatchAppend(loaded)
    /\ current_summary' = SummaryOnBatchError(current_summary)
    /\ log' = Append(log, LogEntry("batch", batch_num, FALSE,
                         current_summary, current_summary', <<>>))
    /\ llm_call_count' = CountInvocation(llm_call_count)
    /\ NextBatch
    /\ UNCHANGED tplVars
    /\ UNCHANGED <<batch_size, conversation_history, runNo, caller,
                   image_paths, template_breast, batches, outcome, raisedAt,
                   ret, case_outcome, saved_report, prev_invoked>>

\* process_images_batch, lines 236-257 and 273-276: the invocation fails
ProcessBatchFail ==
    /\ InBatch
    /\ \E loaded \in LoadedChoices :
         LET sent == conversation_history \o BatchAppend(loaded)
         IN  /\ conversation_history' = sent
             /\ lastSent' = sent
    /\ current_summary' = SummaryOnBatchError(current_summary)
    /\ log' = Append(log, LogEntry("batch", batch_num, FALSE,
                         current_summary, current_summary', <<>>))
    /\ llm_call_count' = CountInvocation(llm_call_count)
    /\ NextBatch
    /\ UNCHANGED tplVars
    /\ UNCHANGED <<batch_size, runNo, caller, image_paths, template_breast,
                   batches, outcome, raisedAt, ret, case_outcome,
                   saved_report, prev_invoked>>

\* the few-shot examples are embedded for a breast case when their file loads
FewShotChoices == IF template_breast THEN BOOLEAN ELSE {FALSE}

\* generate_report, lines 327-349: the final invocation succeeds
FinalOk ==
    /\ pc = "final"
    /\ \E few_shot \in FewShotChoices, report_text \in FinalReplies :
         LET sent == Append(conversation_history,
                            FinalMessage(current_summary, few_shot,
                                         runNo))
         IN  /\ conversation_history' = sent
             /\ lastSent' = sent
             /\ log' = Append(log, LogEntry("final", 0, TRUE, current_summary,
                                            current_summary, report_text))
             /\ ret' = ReturnValue(report_text,
                                   CountInvocation(llm_call_count))
    /\ llm_call_count' = CountInvocation(llm_call_count)
    /\ outcome' = "returned"
    /\ pc' = IF caller = "process_case" THEN "post" ELSE "idle"
    /\ UNCHANGED tplVars
    /\ UNCHANGED <<batch_size, runNo, caller, image_paths, template_breast,
                   batches, batch_num, current_summary, raisedAt,
                   case_outcome, saved_report, prev_invoked>>

\* FinalFail retrying the final invocation once before giving up
FinalFailRetry ==
    /\ pc = "final"
    /\ \E few_shot \in FewShotChoices :
         LET sent == Append(conversation_history,
                            FinalMessage(current_summary, few_shot,
                                         runNo))
         IN  /\ conversation_history' = sent
             /\ lastSent' = sent
    /\ log' = log \o << LogEntry("final", 0, FALSE, current_summary,
                                 current_summary, <<>>),
                        LogEntry("final", 0, FALSE, current_summary,
                                 current_summary, <<>>) >>
    /\ llm_call_count' = CountInvocation(CountInvocation(llm_call_count))
    /\ outcome' = "raised"
    /\ raisedAt' = "final"
    /\ pc' = "idle"
    /\ case_outcome' = RaisedThrough(caller, case_outcome)
    /\ UNCHANGED tplVars
    /\ UNCHANGED <<batch_size, runNo, caller, image_paths, template_breast,
                   batches, batch_num, current_summary, ret,
                   saved_report, prev_invoked>>

\* FinalFail dropping the conversation before the error leaves
FinalFailClear ==
    /\ pc = "final"
    /\ \E few_shot \in FewShotChoices :
         lastSent' = Append(conversation_history,
                            FinalMessage(current_summary, few_shot,
                                         runNo))
    /\ conversation_history' = <<>>
    /\ log' = Append(log, LogEntry("final", 0, FALSE, current_summary,
                                   current_summary, <<>>))
    /\ llm_call_count' = CountInvocation(llm_call_count)
    /\ outcome' = "raised"
    /\ raisedAt' = "final"
    /\ pc' = "idle"
    /\ case_outcome' = RaisedThrough(caller, case_outcome)
    /\ UNCHANGED tplVars
    /\ UNCHANGED <<batch_size, runNo, caller, image_paths, template_breast,
                   batches, batch_num, current_summary, ret,
                   saved_report, prev_invoked>>

\* generate_report, lines 327-344 and 351-353: the final invocation fails
FinalFail ==
    /\ pc = "final"
    /\ \E few_shot \in FewShotChoices :
         LET sent == Append(conversation_history,
                            FinalMessage(current_summary, few_shot,
                                         runNo))
         IN  /\ conversation_history' = sent
             /\ lastSent' = sent
    /\ log' = Append(log, LogEntry("final", 0, FALSE, current_summary,
                                   current_summary, <<>>))
    /\ llm_call_count' = CountInvocation(llm_call_count)
    /\ outcome' = "raised"
    /\ raisedAt' = "final"
    /\ pc' = "idle"
    /\ case_outcome' = RaisedThrough(caller, case_outcome)
    /\ UNCHANGED tplVars
    /\ UNCHANGED <<batch_size, runNo, caller, image_paths, template_breast,
                   batches, batch_num, current_summary, ret,
                   saved_report, prev_invoked>>

\* str.replace exists on a str, not on the tuple generate_report returns
HasReplace(v) == v.type = "str"

\* process_case, lines 229-239: post-process and save the report
ProcessCasePost ==
    /\ pc = "post"
    /\ IF HasReplace(ret)
       THEN /\ saved_report' = StripBold(ret.text)
            /\ case_outcome' = "saved"
       ELSE /\ case_outcome' = "raised"
            /\ UNCHANGED saved_report
    /\ pc' = "idle"
    /\ UNCHANGED tplVars
    /\ UNCHANGED <<batch_size, conversation_history, llm_call_count, runNo,
                   caller, image_paths, template_breast, batches,
                   batch_num, current_summary, outcome, raisedAt, ret, log,
                   lastSent, prev_invoked>>

Next ==
    \/ GenerateReportEmpty
    \/ GenerateReportStart
    \/ ProcessBatchEncodeError
    \/ ProcessBatchOk
    \/ ProcessBatchFail
    \/ FinalOk
    \/ FinalFail
    \/ ProcessCasePost

Spec == Init /\ [][Next]_vars

TypeOK ==
    /\ batch_size \in 1..MaxBatchSize
    /\ llm_call_count \in 0..(MaxImages + 1)
    /\ pc \in {"idle", "batch", "final", "post"}
    /\ runNo \in 0..MaxRuns
    /\ outcome \in {"none", "returned", "raised"}
    /\ raisedAt \in {"none", "init", "batch", "final"}

\* ------------------------------------------- catalog and selector: inputs
\* study labels: ultrasound of both breasts, of the right, of the left and
\* without a side; 3D mammogram of both breasts and of the right; a label
\* with 2D and 3D markers; a label of a 2D mammogram and a breast
\* ultrasound; a tomosynthesis label without a mammogram token
Labels ==
    { "Us_Breast_(Bilateral) - US23__USBREAST",
      "Us_Breast_(Right)", "Breast_(Left)", "Breast",
      "Mg3DBi_Standard_Screening__Tomohd - MG3DBI",
      "Mg3D_Right_Tomo",
      "Mg3DBi_Tomohd - BI02__2D_MMGBIL",
      "Breast_Mg2D_Left", "Tomo_Screening" }

\* label lists of at most MaxLabels labels
LabelLists == UNION { [1..n -> Labels] : n \in 0..MaxLabels }

\* ids and names asked for in lookups
LookupIds == {"template_001", "template_003", "template_999"}

LookupNames == {NameUsBoth, "CT", "ultrasound of both breasts", ""}

\* ------------------------------------------ catalog and selector: actions
\* TemplateManager(templates_file) on a readable file
InitSel ==
    /\ GeneratorInit
    /\ batch_size = 1
    /\ \E data \in CatalogFiles :
          /\ templates = LoadTemplates(data).templates
          /\ templates_by_id = LoadTemplates(data).by_id
          /\ templates_by_name = LoadTemplates(data).by_name
    /\ op = "none"
    /\ key = ""
    /\ directory_names = <<>>
    /\ info = NoInfo
    /\ template_name = NoName
    /\ result = NoResult
    /\ held_list = <<>>
    /\ held_alias = FALSE
    /\ RtIdle
    /\ ExtIdle

\* what every catalog getter leaves alone
GetterFrame ==
    /\ UNCHANGED <<templates, templates_by_id, templates_by_name>>
    /\ UNCHANGED <<directory_names, info, template_name>>
    /\ UNCHANGED <<genVars, rtVars, extVars>>

GetTemplateById ==
    /\ op = "none"
    /\ \E template_id \in LookupIds :
          /\ key' = template_id
          /\ result' = GetTemplate(templates_by_id, template_id)
    /\ op' = "get_template_by_id"
    /\ UNCHANGED <<held_list, held_alias>>
    /\ GetterFrame

GetTemplateByName ==
    /\ op = "none"
    /\ \E name \in LookupNames :
          /\ key' = name
          /\ result' = GetTemplate(templates_by_name, name)
    /\ op' = "get_template_by_name"
    /\ UNCHANGED <<held_list, held_alias>>
    /\ GetterFrame

\* get_all_templates handing out the catalog's own list
GetAllTemplatesNoCopy ==
    /\ op = "none"
    /\ op' = "get_all_templates"
    /\ result' = ReturnedList(templates)
    /\ held_list' = templates
    /\ held_alias' = TRUE
    /\ UNCHANGED key
    /\ GetterFrame

\* return self.templates.copy(): the caller holds a new list
GetAllTemplates ==
    /\ op = "none"
    /\ op' = "get_all_templates"
    /\ result' = ReturnedList(templates)
    /\ held_list' = templates
    /\ held_alias' = FALSE
    /\ UNCHANGED key
    /\ GetterFrame

GetTemplateNames ==
    /\ op = "none"
    /\ op' = "get_template_names"
    /\ result' = ReturnedNames(DictKeys(templates_by_name))
    /\ UNCHANGED <<key, held_list, held_alias>>
    /\ GetterFrame

GetTemplateIds ==
    /\ op = "none"
    /\ op' = "get_template_ids"
    /\ result' = ReturnedNames(DictKeys(templates_by_id))
    /\ UNCHANGED <<key, held_list, held_alias>>
    /\ GetterFrame

\* select_template(directory_names)
SelectTemplate ==
    /\ op = "none"
    /\ \E names \in LabelLists :
          /\ directory_names' = names
          /\ info' = ParseDirectoryNames(names)
          /\ template_name' = CanonicalName(ParseDirectoryNames(names))
          /\ result' = Resolve(templates_by_name,
                               CanonicalName(ParseDirectoryNames(names)))
    /\ op' = "select_template"
    /\ UNCHANGED <<templates, templates_by_id, templates_by_name>>
    /\ UNCHANGED <<key, held_list, held_alias>>
    /\ UNCHANGED <<genVars, rtVars, extVars>>

\* the caller changes the list get_all_templates gave it: pop() or
\* reverse(); under a shared list object the catalog's list changes too
MutateHeld ==
    /\ op = "get_all_templates"
    /\ held_list # <<>>
    /\ \/ held_list' = SubSeq(held_list, 1, Len(held_list) - 1)
       \/ /\ Len(held_list) > 1
          /\ held_list' = [i \in 1..Len(held_list) |->
                              held_list[Len(held_list) + 1 - i]]
    /\ templates' = IF held_alias THEN held_list' ELSE templates
    /\ UNCHANGED <<templates_by_id, templates_by_name, op, key,
                   directory_names, info, template_name, result, held_alias>>
    /\ UNCHANGED <<genVars, rtVars, extVars>>

\* the call is over: its locals and what it returned are dropped
Return ==
    /\ op # "none"
    /\ op' = "none"
    /\ key' = ""
    /\ directory_names' = <<>>
    /\ info' = NoInfo
    /\ template_name' = NoName
    /\ result' = NoResult
    /\ held_list' = <<>>
    /\ held_alias' = FALSE
    /\ UNCHANGED <<templates, templates_by_id, templates_by_name>>
    /\ UNCHANGED <<genVars, rtVars, extVars>>

NextSel ==
    \/ GetTemplateById
    \/ GetTemplateByName
    \/ GetAllTemplates
    \/ GetTemplateNames
    \/ GetTemplateIds
    \/ SelectTemplate
    \/ MutateHeld
    \/ Return

SpecSel == InitSel /\ [][NextSel]_vars


\* ----------------------------------------------- save and load: round trip
\* Templates to save: two as the extractor makes them, with and without a
\* variation; one with a list and a None, one with a tuple among its
\* metadata; one with no sections and no metadata that shares an id and a
\* name
TemplatePool ==
    { Template("template_001", "ULTRASOUND OF BOTH BREASTS",
               <<[key |-> "FINDINGS", value |-> "Normal."],
                 [key |-> "COMMENTS", value |-> ""]>>,
               ExtractedMetadata("")),
      Template("template_002", "ULTRASOUND OF THYROID",
               <<[key |-> "FINDINGS", value |-> "Normal."]>>,
               ExtractedMetadata("Female")),
      Template("template_003", "CT",
               <<[key |-> "FINDINGS", value |-> "Normal."]>>,
               <<[key |-> "tags", value |-> PyList(<<"a", "b">>)],
                 [key |-> "variation", value |-> PyNone]>>),
      Template("template_004", "MRI",
               <<[key |-> "FINDINGS", value |-> "Normal."]>>,
               <<[key |-> "size", value |-> PyTuple(<<"1", "2">>)]>>),
      Template("template_001", "ULTRASOUND OF BOTH BREASTS", <<>>, <<>>) }

\* lists of at most MaxTemplates Templates
TemplateLists == UNION { [1..n -> TemplatePool] : n \in 0..MaxTemplates }

\* a caller holds a list of Templates; no catalog is loaded yet
InitRT ==
    /\ GeneratorInit
    /\ batch_size = 1
    /\ CatIdle
    /\ saved_templates \in TemplateLists
    /\ json_file = NoFile
    /\ stage = "start"
    /\ ExtIdle

\* save_to_json(templates, output_path)
SaveToJson ==
    /\ stage = "start"
    /\ json_file' = File(Dump(saved_templates))
    /\ stage' = "saved"
    /\ UNCHANGED <<saved_templates, genVars, catVars, extVars>>

\* TemplateManager(output_path): _load_templates reads the saved file
LoadSaved ==
    /\ stage = "saved"
    /\ json_file.exists
    /\ templates' = LoadTemplates(Decode(json_file.document)).templates
    /\ templates_by_id' = LoadTemplates(Decode(json_file.document)).by_id
    /\ templates_by_name' = LoadTemplates(Decode(json_file.document)).by_name
    /\ stage' = "loaded"
    /\ UNCHANGED <<op, key, directory_names, info, template_name, result,
                   held_list, held_alias>>
    /\ UNCHANGED <<saved_templates, json_file, genVars, extVars>>

\* get_all_templates on the manager that loaded the file
GetAllLoaded == stage = "loaded" /\ GetAllTemplates

\* that call is over
ReturnLoaded == stage = "loaded" /\ Return

NextRT ==
    \/ SaveToJson
    \/ LoadSaved
    \/ GetAllLoaded
    \/ ReturnLoaded

SpecRT == InitRT /\ [][NextRT]_vars


\* ------------------------------------------------------ extractor: inputs
ExampleHeading == "ULTRASOUND OF BOTH BREASTS"

\* marker paragraphs: without a variation, and in mixed case with one
Markers == {"TEMPLATE ONLY", "Template only (Female)"}

\* what can follow a marker: one example; the same example twice; examples
\* with a table, an upper-case line that is not the heading, a section
\* without content and a section header outside the known ones; nothing;
\* content and a section header before the heading and an empty section at
\* the end
Bodies ==
    { <<Paragraph(ExampleHeading), Paragraph("FINDINGS:"),
        Paragraph("Normal.")>>,
      <<Paragraph(ExampleHeading), Paragraph("FINDINGS:"),
        Paragraph("Normal."),
        Paragraph(ExampleHeading), Paragraph("FINDINGS:"),
        Paragraph("Normal.")>>,
      <<Paragraph(ExampleHeading), Paragraph("FINDINGS:"),
        Paragraph(" No mass. "), Table(<<<<"Site", "Size">>, <<"Right ", "5mm">>>>),
        Paragraph("ULTRASOUND OF THYROID"), Paragraph("COMMENTS:"),
        Paragraph("  "),
        Paragraph(ExampleHeading), Paragraph("TECHNIQUE:"),
        Paragraph("Normal.")>>,
      <<>>,
      <<Paragraph("Normal."), Paragraph("FINDINGS:"),
        Paragraph(ExampleHeading), Paragraph("COMMENTS:")>> }

\* what precedes the first marker
Preamble == <<Paragraph("US Report templates")>>

\* the documents with n markers, each followed by one of the bodies
RECURSIVE DocumentsOf(_)
DocumentsOf(n) ==
    IF n = 0 THEN {Preamble}
    ELSE {d \o <<Paragraph(m)>> \o b :
             d \in DocumentsOf(n - 1), m \in Markers, b \in Bodies}

\* the documents with at most MaxMarkers markers
Documents == UNION {DocumentsOf(n) : n \in 0..MaxMarkers}

\* ----------------------------------------------------- extractor: actions
\* TemplateExtractor() and a source document to give it
InitExt ==
    /\ GeneratorInit
    /\ batch_size = 1
    /\ CatIdle
    /\ RtIdle
    /\ body_elements \in Documents
    /\ ext_templates = <<>>
    /\ returned = NoList
    /\ prev_returned = NoList

\* extract_from_docx(docx_path) on the extractor in use
ExtractFromDocx ==
    /\ ext_templates' =
          ExtractOnto(body_elements, TemplatesReset(ext_templates))
    /\ returned' = ReturnedTemplates(ext_templates')
    /\ prev_returned' = returned
    /\ UNCHANGED <<body_elements, genVars, catVars, rtVars>>

\* TemplateExtractor(): a fresh extractor takes the place of the one in use
NewExtractor ==
    /\ ext_templates # <<>>
    /\ ext_templates' = <<>>
    /\ UNCHANGED <<body_elements, returned, prev_returned>>
    /\ UNCHANGED <<genVars, catVars, rtVars>>

NextExt ==
    \/ ExtractFromDocx
    \/ NewExtractor

SpecExt == InitExt /\ [][NextExt]_vars

\* ------------------------------------------------------------ properties
\* ceil(n / b), computed arithmetically
CeilDiv(n, b) == (n + b - 1) \div b

BatchEntries == SelectSeq(log, LAMBDA e : e.kind = "batch")

FinalEntries == SelectSeq(log, LAMBDA e : e.kind = "final")

RunEnded == pc \in {"idle", "post"} /\ outcome \in {"returned", "raised"}

HasBold(s) == \E i \in 1..(Len(s) - 1) : s[i] = STAR /\ s[i + 1] = STAR

\* C1: a call of generate_report on N >= 1 images with batch size B that
\* returns has invoked the model once for each batch 1..ceil(N/B), in
\* order, failed or not, and exactly once for the final synthesis.
C1_BatchPartition ==
    outcome = "returned" =>
        LET n == CeilDiv(Len(image_paths), batch_size)
        IN  /\ Len(BatchEntries) = n
            /\ \A k \in 1..n : BatchEntries[k].k = k
            /\ Len(FinalEntries) = 1
            /\ log[Len(log)].kind = "final"

C1_Witness ==
    /\ outcome = "returned"
    /\ Len(image_paths) = 3
    /\ batch_size = 2
    /\ \E i \in 1..Len(log) : log[i].kind = "batch" /\ ~log[i].ok

\* C2 (as claimed): when the invocation of batch k fails the summary after
\* batch k equals the summary before it, and once the call has ended every
\* batch k+1..N has been invoked.
C2_FaultTolerance ==
    /\ \A i \in 1..Len(log) :
         (log[i].kind = "batch" /\ ~log[i].ok) => log[i].after = log[i].before
    /\ RunEnded =>
         \A i \in 1..Len(log) :
            (log[i].kind = "batch" /\ ~log[i].ok) =>
               \A j \in (log[i].k + 1)..Len(batches) :
                  \E m \in 1..Len(log) : log[m].kind = "batch" /\ log[m].k = j

\* C3: the count returned by generate_report is the number of invocations
\* made by that call, failed batch invocations included, which is
\* ceil(N/B) + 1.
C3_CountMatchesInvocations ==
    outcome = "returned" =>
        /\ ret.count = Len(log)
        /\ ret.count = CeilDiv(Len(image_paths), batch_size) + 1

C3_Witness ==
    /\ outcome = "returned"
    /\ Len(log) = 3
    /\ ~log[1].ok
    /\ ~log[2].ok

\* C4 (as claimed): a call with a non-empty image list that raises has
\* raised from the final synthesis step, after every batch was invoked.
C4_SingleFatalExit ==
    (outcome = "raised" /\ image_paths # <<>>) =>
        /\ raisedAt = "final"
        /\ Len(BatchEntries) = Len(batches)

\* C5: when the final invocation fails generate_report raises, returns
\* nothing, and the failed final invocation is the only final invocation
\* and the last invocation of the call.
C5_FinalFailurePropagates ==
    (\E i \in 1..Len(log) : log[i].kind = "final" /\ ~log[i].ok) =>
        /\ outcome = "raised"
        /\ raisedAt = "final"
        /\ pc = "idle"
        /\ ret = NoReturn
        /\ Len(FinalEntries) = 1
        /\ log[Len(log)].kind = "final"
        /\ llm_call_count = Len(log)
        /\ (caller = "process_case" => case_outcome = "raised")

C5_Witness ==
    /\ outcome = "raised"
    /\ raisedAt = "final"
    /\ Len(log) >= 2

\* C6: a call of generate_report with an empty image list raises at once,
\* makes no invocation and leaves conversation_history and llm_call_count
\* as they were.
C6_EmptyInput ==
    [][ (runNo' # runNo /\ image_paths' = <<>>) =>
            /\ outcome' = "raised"
            /\ raisedAt' = "init"
            /\ pc' = "idle"
            /\ log' = <<>>
            /\ ret' = NoReturn
            /\ conversation_history' = conversation_history
            /\ llm_call_count' = llm_call_count ]_vars

C6_Witness ==
    /\ raisedAt = "init"
    /\ prev_invoked
    /\ Len(conversation_history) > 1
    /\ llm_call_count > 0

WellFormedConversation(h) ==
    /\ h # <<>>
    /\ h[1].role = "system"
    /\ \A i \in 2..Len(h) : h[i].role \in {"user", "assistant"}

\* C7: within one call the history only grows at its end, the messages
\* passed to an invocation extend those passed to the previous invocation
\* by at least one message, and they are one system message followed by
\* user and assistant messages only.
C7_AppendOnly ==
    /\ [](lastSent # <<>> => WellFormedConversation(lastSent))
    /\ [][ runNo' = runNo =>
              IsPrefix(conversation_history, conversation_history') ]_vars
    /\ [][ (runNo' = runNo /\ log # <<>> /\ log' # log) =>
              IsStrictPrefix(lastSent, lastSent') ]_vars

C7_Witness ==
    /\ Len(log) = 4
    /\ ~log[2].ok
    /\ log[3].ok
    /\ \E i \in 1..Len(lastSent) : lastSent[i].kind = "breast_prompt"

\* C8: in every call the messages passed to the model were all appended
\* by that call, the first batch prompt embeds the placeholder summary, and
\* the returned count is the number of invocations of that call.
C8_NoEscape ==
    /\ \A i \in 1..Len(lastSent) :
          /\ lastSent[i].run = runNo
          /\ (lastSent[i].kind = "batch" /\ lastSent[i].batch_number = 1)
                => lastSent[i].summary = InitialSummary
    /\ outcome = "returned" => ret.count = Len(log)

C8_Witness ==
    /\ runNo = 2
    /\ prev_invoked
    /\ outcome = "returned"
    /\ \E i \in 1..Len(log) : ~log[i].ok

C10_MarkupStripped ==
    /\ outcome = "returned" =>
          /\ ret.text = StripBold(log[Len(log)].reply)
          /\ ~HasBold(ret.text)
    /\ (outcome = "returned" /\ caller = "process_case" /\ pc = "idle") =>
          /\ case_outcome = "saved"
          /\ saved_report = StripBold(log[Len(log)].reply)

\* ---------------------------------------- properties of the selector
\* the label carries an ultrasound-breast token
IsUsBreastLabel(label) == HasSub(ToUpper(label), "BREAST")

\* the label carries a mammogram token
IsMammogramLabel(label) ==
    \E token \in {"MG", "MMG", "MAMMOGRAM"} : HasSub(ToUpper(label), token)

\* the label carries a 2D marker
Has2DMarker(label) ==
    \E token \in {"MG2D", "_2D_", "2D_MMG", "BI02"} :
       HasSub(ToUpper(label), token)

\* the label carries a 3D marker
Has3DMarker(label) ==
    \E token \in {"MG3D", "TOMO", "MG3DBI"} : HasSub(ToUpper(label), token)

\* the label signals a 3D mammogram: a mammogram label with a 3D marker
\* that no 2D marker overrides
Is3DMammogramLabel(label) ==
    IsMammogramLabel(label) /\ Has3DMarker(label) /\ ~Has2DMarker(label)

\* the permutations of 1..n
Orders(n) ==
    {f \in [1..n -> 1..n] : \A i, j \in 1..n : f[i] = f[j] => i = j}

\* the name select_template chooses for a label list
ChosenName(names) == CanonicalName(ParseDirectoryNames(names))

\* a select_template call has been made and its outcome is in view
Selected == op = "select_template"

\* C11: for a label list with a label signalling a 3D mammogram and a label
\* carrying an ultrasound-breast token, select_template chooses one of the
\* combined 3D-mammogram-and-ultrasound names, never the ultrasound-only
\* name, and chooses the same name for every permutation of the list.
C11_Combined3DPreferred ==
    ( /\ Selected
      /\ \E i \in 1..Len(directory_names) :
            Is3DMammogramLabel(directory_names[i])
      /\ \E i \in 1..Len(directory_names) :
            IsUsBreastLabel(directory_names[i]) )
    => /\ template_name \in {Name3DBoth, Name3DRight}
       /\ template_name # NameUsBoth
       /\ \A f \in Orders(Len(directory_names)) :
             ChosenName([i \in 1..Len(directory_names) |->
                            directory_names[f[i]]]) = template_name

\* the ultrasound label comes after the 3D mammogram label, and a third
\* kind of label may be among them
C11_Witness ==
    /\ Selected
    /\ Len(directory_names) >= 2
    /\ Is3DMammogramLabel(directory_names[1])
    /\ IsUsBreastLabel(directory_names[Len(directory_names)])
    /\ ~IsMammogramLabel(directory_names[Len(directory_names)])
    /\ template_name = Name3DBoth

\* C12: when some label carries an ultrasound-breast token and no label
\* yields a 2D or 3D mammogram flag, select_template resolves the name
\* 'ULTRASOUND OF BOTH BREASTS' whatever side the labels carry, and returns
\* the catalog entry of that name when the catalog has one.
C12_UltrasoundOnlyName ==
    ( /\ Selected
      /\ \E i \in 1..Len(directory_names) :
            IsUsBreastLabel(directory_names[i])
      /\ \A i \in 1..Len(directory_names) :
            /\ ~ParseOne(NoInfo, directory_names[i]).has_mg_2d
            /\ ~ParseOne(NoInfo, directory_names[i]).has_mg_3d )
    => /\ template_name = "ULTRASOUND OF BOTH BREASTS"
       /\ DictHas(templates_by_name, "ULTRASOUND OF BOTH BREASTS")
             => /\ result.kind = "template"
                /\ result.template =
                      DictGet(templates_by_name, "ULTRASOUND OF BOTH BREASTS")
                /\ result.template.name = "ULTRASOUND OF BOTH BREASTS"

\* a right-sided ultrasound label alone, resolved from the catalog
C12_Witness ==
    /\ Selected
    /\ info.has_us_breast_right
    /\ ~info.has_us_breast_bilateral
    /\ ~info.has_mg_2d /\ ~info.has_mg_3d
    /\ result.kind = "template"
    /\ result.template.name = "ULTRASOUND OF BOTH BREASTS"

\* the fuzzy fallback has run: a name was chosen and has no exact entry
FellBack ==
    /\ Selected
    /\ template_name # NoName
    /\ ~DictHas(templates_by_name, template_name)

\* the score of every catalog name against the chosen name, in the
\* iteration order of the names
CatalogScores ==
    [n \in 1..Len(templates_by_name) |->
        Score(template_name, DictKeys(templates_by_name)[n])]

\* C13: when the chosen name has no exact catalog entry, the fuzzy fallback
\* returns no match exactly when every catalog name scores below 0.8
\* (compared without regard to case); otherwise it returns the entry of
\* maximum score, the first such in the iteration order of the catalog
\* names. A score of exactly 0.8 is accepted.
C13_FuzzyFallback ==
    FellBack =>
       LET scores == CatalogScores
           first == CHOOSE n \in 1..Len(scores) :
                       /\ \A m \in 1..Len(scores) : scores[m] <= scores[n]
                       /\ \A m \in 1..(n - 1) : scores[m] < scores[n]
       IN  /\ result.kind = "None"
                <=> \A n \in 1..Len(scores) : scores[n] < Threshold
           /\ (\E n \in 1..Len(scores) : scores[n] >= Threshold)
                => /\ result.kind = "template"
                   /\ result.template = templates_by_name[first].value

\* the entry returned scores exactly 0.8, next to one that scores less
C13_Witness ==
    /\ FellBack
    /\ result.kind = "template"
    /\ Score(template_name, result.template.name) = Threshold
    /\ Len(templates_by_name) > 1

\* C14: select_template returns a Template or None and never raises: None
\* when no label carries an ultrasound-breast token (no flag set at all, or
\* mammogram flags only), and None when the chosen name has no exact
\* catalog entry and no catalog name scores 0.8 or more.
C14_NeverRaises ==
    Selected =>
       /\ result.kind \in {"template", "None"}
       /\ info = NoInfo => result.kind = "None"
       /\ (\A i \in 1..Len(directory_names) :
              ~IsUsBreastLabel(directory_names[i])) => result.kind = "None"
       /\ ( /\ FellBack
            /\ \A n \in 1..Len(templates_by_name) :
                  Score(template_name, templates_by_name[n].key) < Threshold )
          => result.kind = "None"

\* a chosen name missing from a catalog whose names all score too low
C14_Witness ==
    /\ FellBack
    /\ templates_by_name # <<>>
    /\ result.kind = "None"

\* what makes up the catalog
Catalog == <<templates, templates_by_id, templates_by_name>>

\* C18: once loaded, the catalog's template list and both indexes stay as
\* they are under every getter call, failed lookups included, under
\* select_template, and under the caller's changes to a list that
\* get_all_templates returned.
C18_CatalogFrame == [][Catalog' = Catalog]_vars

\* the caller has changed the list it was given, the catalog has its own
C18_Witness ==
    /\ op = "get_all_templates"
    /\ held_list # templates
    /\ result.list = templates
    /\ templates # <<>>

\* ------------------------------------- properties of saving and loading
\* C15: for any list of Templates, saving it with save_to_json and loading
\* the file with TemplateManager yields, from get_all_templates, a list of
\* the same length and order whose elements have equal id, name, sections
\* and metadata.
C15_RoundTrip ==
    (stage = "loaded" /\ op = "get_all_templates")
    => /\ Len(result.list) = Len(saved_templates)
       /\ \A n \in 1..Len(saved_templates) :
             /\ result.list[n].id = saved_templates[n].id
             /\ result.list[n].name = saved_templates[n].name
             /\ result.list[n].sections = saved_templates[n].sections
             /\ result.list[n].metadata = saved_templates[n].metadata

\* every metadata value of the list is a str, None or a list of these: the
\* values JSON has a form of its own for
JsonNative(list) ==
    \A n \in 1..Len(list) : \A m \in 1..Len(list[n].metadata) :
       list[n].metadata[m].value.kind \in {"str", "None", "list"}

\* C15 (amended): for any list of Templates whose metadata values are
\* JSON-native, saving it with save_to_json and loading the file with
\* TemplateManager yields, from get_all_templates, a list of the same
\* length and order whose elements have equal id, name, sections and
\* metadata.
C15_RoundTripJsonNative ==
    (stage = "loaded" /\ op = "get_all_templates" /\ JsonNative(saved_templates))
    => /\ Len(result.list) = Len(saved_templates)
       /\ \A n \in 1..Len(saved_templates) :
             /\ result.list[n].id = saved_templates[n].id
             /\ result.list[n].name = saved_templates[n].name
             /\ result.list[n].sections = saved_templates[n].sections
             /\ result.list[n].metadata = saved_templates[n].metadata

\* two Templates came back, one as the extractor makes them and one with a
\* None and a list among its metadata
C15_Witness ==
    /\ stage = "loaded"
    /\ op = "get_all_templates"
    /\ Len(saved_templates) = 2
    /\ saved_templates[1].metadata = ExtractedMetadata("Female")
    /\ \E m \in 1..Len(saved_templates[2].metadata) :
          saved_templates[2].metadata[m].value.kind = "None"
    /\ \E m \in 1..Len(saved_templates[2].metadata) :
          saved_templates[2].metadata[m].value.kind = "list"
    /\ result.list = saved_templates

\* ------------------------------------------- properties of the extractor
\* the items of a sections dict, which is what two dicts are compared by
Items(sections) == {sections[n] : n \in 1..Len(sections)}

\* Templates with the same name and equal sections
SameExample(t, u) == t.name = u.name /\ Items(t.sections) = Items(u.sections)

\* the variation a Template was extracted under
VariationOf(t) == DictGet(t.metadata, "variation").text

\* number of paragraphs of the document with the given text
RECURSIVE CountText(_, _)
CountText(elements, text) ==
    IF elements = <<>> THEN 0
    ELSE (IF Head(elements).kind = "p" /\ StripText(Head(elements).text) = text
          THEN 1 ELSE 0) + CountText(Tail(elements), text)

\* C16: in the result of one extraction run no two Templates have the same
\* name and the same sections, whatever the document, also when the same
\* example stands under markers with different variation labels.
C16_NoSameExample ==
    returned.has =>
       \A i, j \in 1..Len(returned.list) :
          i < j => ~SameExample(returned.list[i], returned.list[j])

\* C16 (amended): in the result of one extraction run no two Templates
\* have the same name, the same variation and the same sections.
C16_NoSameExamplePerVariation ==
    returned.has =>
       \A i, j \in 1..Len(returned.list) :
          i < j => ~ /\ SameExample(returned.list[i], returned.list[j])
                     /\ VariationOf(returned.list[i])
                           = VariationOf(returned.list[j])

\* the heading stands four times in the document and two Templates came
\* out of it, the same example under two variations
C16_Witness ==
    /\ returned.has
    /\ CountText(body_elements, ExampleHeading) = 4
    /\ Len(returned.list) = 2
    /\ SameExample(returned.list[1], returned.list[2])
    /\ VariationOf(returned.list[1]) # VariationOf(returned.list[2])

\* C17: a second run of extract_from_docx on the same document, on the same
\* extractor or on a fresh one, returns the list the first run returned:
\* same length, names, sections and ids, not grown, ids counted from 1.
C17_Idempotent ==
    (returned.has /\ prev_returned.has)
    => /\ returned.list = prev_returned.list
       /\ \A n \in 1..Len(returned.list) :
             returned.list[n].id = TemplateId(n)

\* two runs have returned, three Templates each
C17_Witness ==
    /\ returned.has
    /\ prev_returned.has
    /\ Len(returned.list) = 3
    /\ Len(prev_returned.list) = 3

\* -------------------------------- properties of the summary and supplement
\* the reply from its first marker on, the marker left out
AfterFirstMarker(reply) ==
    SubSeq(reply,
           (CHOOSE i \in 1..Len(reply) :
               reply[i] = MARKER /\ \A j \in 1..(i - 1) : reply[j] # MARKER) + 1,
           Len(reply))

\* the reply has a marker
HasMarker(reply) == \E i \in 1..Len(reply) : reply[i] = MARKER

\* the batch invocations of the current call that succeeded
Succeeded == {i \in 1..Len(log) : log[i].kind = "batch" /\ log[i].ok}

\* C19: after a successful batch invocation the summary is, for a reply
\* with the marker, the marker followed by everything after its first
\* occurrence, and the whole reply otherwise; the previous summary has no
\* part in it.
C19_SummaryFromReply ==
    \A i \in Succeeded :
       log[i].after = IF HasMarker(log[i].reply)
                      THEN <<MARKER>> \o AfterFirstMarker(log[i].reply)
                      ELSE log[i].reply

\* C19 (amended): after a successful batch invocation the summary is, for
\* a reply with the marker, the marker followed directly by what comes
\* after its first occurrence with the whitespace at both ends removed, and
\* otherwise the whole reply with the whitespace at both ends removed; the
\* previous summary has no part in it.
C19_SummaryFromReplyStripped ==
    /\ \A i \in Succeeded :
          log[i].after = IF HasMarker(log[i].reply)
                         THEN <<MARKER>> \o Strip(AfterFirstMarker(log[i].reply))
                         ELSE Strip(log[i].reply)
    /\ (pc = "batch" /\ log # <<>> /\ Len(log) \in Succeeded)
          => current_summary = log[Len(log)].after

\* a summary with two markers is replaced from a reply with text before
\* its marker and whitespace after it
C19_Witness ==
    /\ pc = "batch"
    /\ Len(log) = 2
    /\ 2 \in Succeeded
    /\ log[2].before = <<MARKER, "a", MARKER, "b">>
    /\ log[2].reply = <<"x", MARKER, WS, "b", WS>>
    /\ current_summary = <<MARKER, "b">>

\* the places of the supplement among given messages
SupplementAt(h) == {i \in 1..Len(h) : h[i].kind = "breast_prompt"}

\* the invocations of the current call, in order
Invocations == [i \in 1..Len(log) |-> <<log[i].kind, log[i].k>>]

\* the invocations a call at this position has made when none was cut off
ExpectedInvocations ==
    [i \in 1..Len(log) |->
        IF i <= Len(batches) THEN <<"batch", i>> ELSE <<"final", 0>>]

\* C20: within a call the supplement is in the history at most once, only
\* for a template name with BREAST in it, and then as the second message:
\* right after the system message and right before the user message of
\* batch 1. With or without the supplement the call makes the same
\* invocations.
C20_SupplementOnce ==
    /\ runNo > 0 =>
          /\ Cardinality(SupplementAt(conversation_history)) <= 1
          /\ SupplementAt(conversation_history) # {} =>
                /\ template_breast
                /\ SupplementAt(conversation_history) = {2}
                /\ conversation_history[1].role = "system"
                /\ Len(conversation_history) >= 3
                /\ conversation_history[3].kind = "batch"
                /\ conversation_history[3].batch_number = 1
                /\ conversation_history[2].role = "user"
    /\ Invocations = ExpectedInvocations

\* a breast case of three batches has returned with the supplement in it
C20_Witness ==
    /\ outcome = "returned"
    /\ template_breast
    /\ Len(batches) = 3
    /\ SupplementAt(conversation_history) = {2}
    /\ Len(log) = 4

\* ------------------------------------------ properties of the invocations
\* the slices one after the other
RECURSIVE Flatten(_)
Flatten(slices) ==
    IF slices = <<>> THEN <<>> ELSE Head(slices) \o Flatten(Tail(slices))

\* the batch messages among given messages, in order
BatchMessagesOf(h) == SelectSeq(h, LAMBDA m : m.kind = "batch")

\* the final messages among given messages
FinalMessagesOf(h) == SelectSeq(h, LAMBDA m : m.kind = "final")

\* C21: within a call the invocations are made one after the other: the
\* i-th invocation is that of batch i until every batch has been invoked
\* and the final invocation after that, each batch invocation has ended
\* (returned or failed) before the next batch is taken up, the batches are
\* non-empty slices of at most batch_size images that put one after the
\* other give the image list, and the k-th batch message carries the k-th
\* slice.
C21_SequentialOrdered ==
    (runNo > 0 /\ image_paths # <<>>) =>
        LET n == Len(batches)
            sent == BatchMessagesOf(lastSent)
        IN  /\ Flatten(batches) = image_paths
            /\ \A k \in 1..n :
                  /\ batches[k] # <<>>
                  /\ Len(batches[k]) <= batch_size
            /\ \A i \in 1..Len(log) :
                  /\ log[i].ok \in BOOLEAN
                  /\ log[i].kind = "batch" => (log[i].k = i /\ i <= n)
                  /\ log[i].kind = "final" => (i = n + 1 /\ i = Len(log))
                  /\ i <= n => log[i].kind = "batch"
            /\ pc = "batch" => (batch_num = Len(log) + 1 /\ batch_num <= n)
            /\ pc = "final" => (Len(log) = n /\ batch_num = n + 1)
            /\ Len(sent) = Len(BatchEntries)
            /\ \A k \in 1..Len(sent) :
                  /\ sent[k].batch_number = k
                  /\ sent[k].total_batches = n
                  /\ sent[k].images = batches[k]
            /\ FinalMessagesOf(lastSent) # <<>> =>
                  /\ Len(sent) = n
                  /\ lastSent[Len(lastSent)].kind = "final"
                  /\ Len(FinalMessagesOf(lastSent)) = 1

\* three images in slices of two and one: batch 1 failed, batch 2 was
\* invoked after it and the final invocation after both
C21_Witness ==
    /\ batch_size = 2
    /\ batches = <<(<<1, 2>>), (<<3>>)>>
    /\ Len(log) = 3
    /\ ~log[1].ok
    /\ log[2].ok
    /\ log[3].kind = "final"
    /\ Len(BatchMessagesOf(lastSent)) = 2

\* the assistant messages among given messages
RepliesOf(h) == SelectSeq(h, LAMBDA m : m.role = "assistant")

\* the place of the message of batch k among given messages
PlaceOfBatch(h, k) ==
    CHOOSE i \in 1..Len(h) : h[i].kind = "batch" /\ h[i].batch_number = k

\* C28: within a call the history holds one assistant message for each
\* batch invocation that has succeeded and one batch message for each batch
\* invoked, the k-th with the images of batch k; the reply of a batch that
\* succeeded follows its batch message, the batch message of a batch that
\* failed is followed by no reply, and the messages passed to the latest
\* invocation hold the batch message of every batch invoked so far.
C28_HistoryPerBatch ==
    (runNo > 0 /\ image_paths # <<>>) =>
        LET h == conversation_history
            asked == BatchMessagesOf(h)
        IN  /\ Len(RepliesOf(h)) = Cardinality(Succeeded)
            /\ Len(asked) = Len(BatchEntries)
            /\ \A k \in 1..Len(asked) :
                  /\ asked[k].batch_number = k
                  /\ asked[k].images = batches[k]
                  /\ asked[k].images # <<>>
            /\ \A i \in 1..Len(log) :
                  log[i].kind = "batch" =>
                     LET at == PlaceOfBatch(h, log[i].k)
                     IN  IF log[i].ok
                         THEN /\ at < Len(h)
                              /\ h[at + 1] = AssistantMessage(log[i].reply, runNo)
                         ELSE at < Len(h) => h[at + 1].role # "assistant"
            /\ IsPrefix(lastSent, h)
            /\ log # <<>> => BatchMessagesOf(lastSent) = asked

\* batch 1 failed, batch 2 succeeded and the final invocation was sent the
\* message of batch 1 without a reply to it
C28_Witness ==
    /\ Len(log) = 3
    /\ ~log[1].ok
    /\ log[2].ok
    /\ log[3].kind = "final"
    /\ Len(RepliesOf(lastSent)) = 1
    /\ lastSent[2].kind = "batch"
    /\ lastSent[2].images = <<1>>
    /\ lastSent[3].kind = "batch"

\* the summary of the latest batch invocation before invocation i that
\* succeeded, the initial summary when there is none
LatestSummaryBefore(i) ==
    LET earlier == {j \in Succeeded : j < i}
    IN  IF earlier = {} THEN InitialSummary
        ELSE log[CHOOSE j \in earlier : \A m \in earlier : m <= j].after

\* C29: the summary in the message of batch k and in the final message is
\* the one taken from the latest batch invocation before it that succeeded,
\* and the initial summary when none did; a call whose batch invocations
\* all failed still makes the final invocation with the initial summary,
\* and when that returns the count is the number of batches plus one.
C29_SummaryCarriedOver ==
    (runNo > 0 /\ image_paths # <<>>) =>
        LET sent == BatchMessagesOf(lastSent)
            last == FinalMessagesOf(lastSent)
        IN  /\ \A k \in 1..Len(sent) : sent[k].summary = LatestSummaryBefore(k)
            /\ \A f \in 1..Len(last) :
                  last[f].summary = LatestSummaryBefore(Len(batches) + 1)
            /\ \A i \in 1..Len(log) : log[i].before = LatestSummaryBefore(i)
            /\ pc \in {"batch", "final"} =>
                  current_summary = LatestSummaryBefore(Len(log) + 1)
            /\ (Succeeded = {} /\ pc = "final") =>
                  /\ current_summary = InitialSummary
                  /\ Len(log) = Len(batches)
                  /\ llm_call_count = Len(batches)
            /\ (Succeeded = {} /\ outcome = "returned") =>
                  /\ ret.count = Len(batches) + 1
                  /\ last[1].summary = InitialSummary

\* all three batch invocations failed and the call returned a report
C29_Witness ==
    /\ outcome = "returned"
    /\ Len(batches) = 3
    /\ Succeeded = {}
    /\ ret.count = 4
    /\ lastSent[Len(lastSent)].kind = "final"
    /\ lastSent[Len(lastSent)].summary = InitialSummary

\* batch 1 succeeded, batch 2 failed and the final message carries the
\* summary of batch 1
C29_WitnessCarried ==
    /\ Len(log) = 3
    /\ Succeeded = {1}
    /\ log[3].kind = "final"
    /\ lastSent[Len(lastSent)].summary = log[1].after
    /\ log[1].after # InitialSummary

\* ------------------------------------ properties of the study features
\* the label carries one of the laterality tokens
HasLateralityToken(label) ==
    \E token \in {"BILATERAL", "RIGHT", "LEFT"} : HasSub(ToUpper(label), token)

\* C22 (as claimed): when a label of the list carries an ultrasound-breast
\* token and none of the laterality tokens, the feature set that
\* _parse_directory_names derives has the ultrasound-bilateral flag set.
C22_DefaultBilateral ==
    ( /\ Selected
      /\ \E i \in 1..Len(directory_names) :
            /\ IsUsBreastLabel(directory_names[i])
            /\ ~HasLateralityToken(directory_names[i]) )
    => info.has_us_breast_bilateral

\* the label is a mammogram label with a 2D marker and a 3D marker
HasBothMarkers(label) ==
    IsMammogramLabel(label) /\ Has2DMarker(label) /\ Has3DMarker(label)

\* C23: a mammogram label with both a 2D marker and a 3D marker sets the 2D
\* flag and not the 3D flag; a label list with such a label, an
\* ultrasound-breast label and no other mammogram label gets one of the
\* combined 2D names.
C23_BothMarkersIs2D ==
    /\ \A label \in Labels :
          HasBothMarkers(label) =>
             /\ ParseDirectoryNames(<<label>>).has_mg_2d
             /\ ~ParseDirectoryNames(<<label>>).has_mg_3d
    /\ ( /\ Selected
         /\ \E i \in 1..Len(directory_names) :
               /\ HasBothMarkers(directory_names[i])
               /\ \A j \in 1..Len(directory_names) :
                     IsMammogramLabel(directory_names[j])
                        => directory_names[j] = directory_names[i]
         /\ \E i \in 1..Len(directory_names) :
               IsUsBreastLabel(directory_names[i]) )
       => /\ info.has_mg_2d
          /\ ~info.has_mg_3d
          /\ template_name \in {Name2DBoth, Name2DRight}

\* a right-sided ultrasound label and then a label with the markers MG3D,
\* TOMO, BI02 and 2D_MMG
C23_Witness ==
    /\ Selected
    /\ Len(directory_names) = 2
    /\ directory_names[1] = "Us_Breast_(Right)"
    /\ HasBothMarkers(directory_names[2])
    /\ Has3DMarker(directory_names[2])
    /\ info.has_mg_2d
    /\ template_name = Name2DBoth

\* the tier the flags name: 3 for the 3D combination, 2 for the 2D
\* combination, 1 for ultrasound alone, 0 for none
TierOf(i) ==
    IF i.has_us_breast /\ i.has_mg_3d THEN 3
    ELSE IF i.has_us_breast /\ i.has_mg_2d THEN 2
    ELSE IF i.has_us_breast THEN 1
    ELSE 0

AnyBilateral(i) == i.has_us_breast_bilateral \/ i.has_mg_bilateral

AnyRight(i) == i.has_us_breast_right \/ i.has_mg_right

\* C24: the chosen name is that of the 3D combination when the ultrasound
\* and 3D flags are set, else that of the 2D combination when the
\* ultrasound and 2D flags are set, else the ultrasound-only name when the
\* ultrasound flag is set, else none; in a combined tier it is the
\* both-breasts name when a bilateral flag is set, whether or not a right
\* flag is, else the right-breast name when a right flag is set, else the
\* both-breasts name.
C24_NamePriority ==
    Selected =>
       /\ TierOf(info) = 3 =>
             /\ AnyBilateral(info) => template_name = Name3DBoth
             /\ (~AnyBilateral(info) /\ AnyRight(info))
                   => template_name = Name3DRight
             /\ (~AnyBilateral(info) /\ ~AnyRight(info))
                   => template_name = Name3DBoth
       /\ TierOf(info) = 2 =>
             /\ AnyBilateral(info) => template_name = Name2DBoth
             /\ (~AnyBilateral(info) /\ AnyRight(info))
                   => template_name = Name2DRight
             /\ (~AnyBilateral(info) /\ ~AnyRight(info))
                   => template_name = Name2DBoth
       /\ TierOf(info) = 1 => template_name = NameUsBoth
       /\ TierOf(info) = 0 => template_name = NoName

\* a right flag is set next to a bilateral flag and the both-breasts name
\* of the 3D tier is chosen
C24_Witness ==
    /\ Selected
    /\ TierOf(info) = 3
    /\ info.has_us_breast_right
    /\ info.has_mg_bilateral
    /\ AnyBilateral(info)
    /\ template_name = Name3DBoth

\* left flags only in the 2D tier: the both-breasts name
C24_WitnessLeftOnly ==
    /\ Selected
    /\ TierOf(info) = 2
    /\ info.has_mg_left
    /\ ~AnyBilateral(info)
    /\ ~AnyRight(info)
    /\ template_name = Name2DBoth

\* the 2D and the 3D flag are both set, with a right flag and no bilateral
\* flag: the right-breast name of the 3D tier
C24_WitnessRight ==
    /\ Selected
    /\ TierOf(info) = 3
    /\ info.has_mg_2d
    /\ ~AnyBilateral(info)
    /\ template_name = Name3DRight

\* ------------------------------------------- properties of the extraction
\* the identifiers of the first nine Templates of a run
FirstIds ==
    <<"template_001", "template_002", "template_003", "template_004",
      "template_005", "template_006", "template_007", "template_008",
      "template_009">>

\* C25: the k-th Template a run returns has the identifier "template_"
\* followed by k in three digits; the identifiers differ from each other
\* and count from 001 without a gap, also past entries that were skipped as
\* duplicates.
C25_SequentialIds ==
    returned.has =>
       /\ Len(returned.list) <= Len(FirstIds)
       /\ \A k \in 1..Len(returned.list) : returned.list[k].id = FirstIds[k]
       /\ \A j, k \in 1..Len(returned.list) :
             returned.list[j].id = returned.list[k].id => j = k

\* three examples of which the second repeats the first and is skipped;
\* the third, under another variation, is given the second identifier
C25_Witness ==
    /\ returned.has
    /\ CountText(body_elements, ExampleHeading) = 3
    /\ Len(returned.list) = 2
    /\ VariationOf(returned.list[1]) = ""
    /\ VariationOf(returned.list[2]) = "Female"
    /\ returned.list[2].id = "template_002"
    /\ SameExample(returned.list[1], returned.list[2])

\* the locals of _parse_template_section when its loop, started at element
\* i with the locals st, stops: at the next marker or past the last element
RECURSIVE ScanEnd(_, _, _)
ScanEnd(elements, i, st) ==
    IF i > Len(elements) \/ IsMarker(elements[i]) THEN [st |-> st, at |-> i]
    ELSE IF elements[i].kind = "p"
    THEN ScanEnd(elements, i + 1, ParseParagraph(st, elements[i]))
    ELSE ScanEnd(elements, i + 1, ParseTable(st, elements[i]))

\* the places of the markers of the document
MarkerPlaces == {m \in 1..Len(body_elements) : IsMarker(body_elements[m])}

\* the sections of the example in progress with the body accumulated for
\* its open section stored under the label of that section
FlushedSections(st) ==
    IF st.current_section = "" THEN st.current_template.sections
    ELSE DictSet(st.current_template.sections, st.current_section,
                 StripText(Join(st.current_content, "\n")))

\* C26 (as claimed): when the scan that follows a marker stops, at the next
\* marker or at the end of the document, with an example in progress, the
\* result has a Template with the name of that example and with its
\* sections, the body accumulated for the open section stored under that
\* section's label; and the scan hands back the place of that marker, or
\* the end of the document.
C26_DanglingFlushed ==
    returned.has =>
       \A m \in MarkerPlaces :
          LET end == ScanEnd(body_elements, m + 1, ParseStart)
          IN  /\ ParseTemplateSection(body_elements, m + 1).next_idx = end.at
              /\ end.st.has_template =>
                    \E k \in 1..Len(returned.list) :
                       /\ returned.list[k].name = end.st.current_template.name
                       /\ returned.list[k].sections = FlushedSections(end.st)

\* the places, within the scan that follows the marker at m, of the
\* paragraphs that repeat the first main heading of that scan
HeadingPlaces(m) ==
    LET end == ScanEnd(body_elements, m + 1, ParseStart)
    IN  {p \in (m + 1)..(end.at - 1) :
            /\ end.st.main_heading # ""
            /\ body_elements[p].kind = "p"
            /\ StripText(body_elements[p].text) = end.st.main_heading}

\* the elements of the n-th example of that scan: from the n-th heading up
\* to the next heading or to where the scan stops
ExampleElements(m, n) ==
    LET end == ScanEnd(body_elements, m + 1, ParseStart)
        places == HeadingPlaces(m)
        from == CHOOSE p \in places :
                   Cardinality({q \in places : q < p}) = n - 1
        later == {q \in places : q > from}
        upto == IF later = {} THEN end.at - 1
                ELSE (CHOOSE q \in later : \A r \in later : q <= r) - 1
    IN  SubSeq(body_elements, from, upto)

\* the sections an example has when its elements are scanned by themselves,
\* at the end of a document or before a marker
SectionsAlone(elements) ==
    { ParseTemplateSection(elements, 1).templates_data[1].sections,
      ParseTemplateSection(elements \o <<Paragraph("TEMPLATE ONLY")>>, 1)
         .templates_data[1].sections }

\* C27 (as claimed): the scan that follows a marker yields, before
\* deduplication, one example for each occurrence of its first main
\* heading, each named after the heading, and the sections of the n-th one
\* are those of the elements from the n-th heading to the next: nothing of
\* one example is in the next.
C27_OnePerHeading ==
    returned.has =>
       \A m \in MarkerPlaces :
          LET data == ParseTemplateSection(body_elements, m + 1).templates_data
              k == Cardinality(HeadingPlaces(m))
          IN  /\ Len(data) = k
              /\ \A n \in 1..k :
                    /\ data[n].name =
                          ScanEnd(body_elements, m + 1, ParseStart).st.main_heading
                    /\ data[n].sections \in SectionsAlone(ExampleElements(m, n))

\* the locals of _parse_template_section, started at element i with the
\* locals st, when its loop comes to element p
RECURSIVE ScanUpTo(_, _, _, _)
ScanUpTo(elements, i, st, p) ==
    IF i >= p THEN st
    ELSE IF elements[i].kind = "p"
    THEN ScanUpTo(elements, i + 1, ParseParagraph(st, elements[i]), p)
    ELSE ScanUpTo(elements, i + 1, ParseTable(st, elements[i]), p)

\* the marker whose scan comes to element p
MarkerBefore(p) ==
    CHOOSE m \in MarkerPlaces :
       m < p /\ \A q \in MarkerPlaces : q < p => q <= m

\* the locals of the scan when it comes to element p
LocalsAt(p) == ScanUpTo(body_elements, MarkerBefore(p) + 1, ParseStart, p)

\* the places of the lines in question: within the scan of a marker, an
\* upper-case line of more than ten characters that does not end with ':',
\* is no section label and is not the first main heading of the scan
OtherHeadingPlaces ==
    LET markers == MarkerPlaces
        headings ==
            {<<m, ScanEnd(body_elements, m + 1, ParseStart).st.main_heading>> :
                m \in markers}
        FirstHeadingAt(p) ==
            (CHOOSE h \in headings :
                h[1] < p /\ \A g \in headings : g[1] < p => g[1] <= h[1])[2]
    IN  {p \in 1..Len(body_elements) :
            /\ body_elements[p].kind = "p"
            /\ p \notin markers
            /\ \E m \in markers : m < p
            /\ LET text == StripText(body_elements[p].text)
               IN  /\ Len(text) > 10
                   /\ ~EndsWithColon(text)
                   /\ IsUpper(text)
                   /\ text \notin KnownSections
                   /\ text # FirstHeadingAt(p)}

\* the elements without the one at place p
Without(elements, p) ==
    SubSeq(elements, 1, p - 1) \o SubSeq(elements, p + 1, Len(elements))

\* C30: within the scan of a marker an upper-case line of more than ten
\* characters that does not end with ':', is no known section label and
\* differs from the first main heading leaves every local of the scan as
\* it was: the examples found so far, the example in progress, the open
\* section and its body; the run returns what it returns for the document
\* without that line.
C30_OtherHeadingDiscarded ==
    returned.has =>
       \A p \in OtherHeadingPlaces :
          /\ LocalsAt(p).main_heading # ""
          /\ ParseParagraph(LocalsAt(p), body_elements[p]) = LocalsAt(p)
          /\ returned.list = ExtractOnto(Without(body_elements, p), <<>>)

\* the line comes while a section with a body is open, and the example it
\* stands in is returned with that section alone
C30_Witness ==
    /\ returned.has
    /\ \E p \in OtherHeadingPlaces :
          /\ LocalsAt(p).has_template
          /\ LocalsAt(p).current_section = "FINDINGS"
          /\ LocalsAt(p).current_content # <<>>
          /\ StripText(body_elements[p].text) = "ULTRASOUND OF THYROID"
    /\ \E k \in 1..Len(returned.list) :
          /\ returned.list[k].name = ExampleHeading
          /\ DictHas(returned.list[k].sections, "FINDINGS")
          /\ Len(returned.list[k].sections) = 1

====
